---- MODULE Spec2Model ----
(***************************************************************************)
(* Byte ring buffer (ringbuf.c / ringbuf.h) and the overwrite-oldest write *)
(* of the serial terminal (serial_port/main.c).                            *)
(*                                                                         *)
(* A RingBuf is the record [data, cap, head, tail, size].  The storage     *)
(* rb->data is a sequence of bytes; C index i is element i + 1.  A NULL    *)
(* data pointer is the empty sequence (malloc is only called with          *)
(* capacity >= 1, so allocated storage is never empty).                    *)
(*                                                                         *)
(* Callers always pass non-NULL src / dst / pattern pointers together with *)
(* the length of what they point to, so the `!src`, `!dst`, `!pattern`     *)
(* and `!rb` tests of the C code are never taken and are not modelled.     *)
(* size_t arithmetic never leaves 0 .. 2^64-1 at the modelled sizes.       *)
(***************************************************************************)
EXTENDS Integers, Sequences, FiniteSets, TLC

(* ------------------------------ bounds --------------------------------- *)
\* largest capacity given to rb_init
MaxCap == 3
\* bytes are 0 .. MaxByte
MaxByte == 1
\* longest src / pattern, and largest n / offset, given to an operation
MaxLen == 4
\* longest pattern given to rb_search
MaxPat == 2
\* operations that would drive g_drop_bytes above MaxDrop are not taken
MaxDrop == 3
\* sizeof(tmp) in rb_push_overwrite (1024 in the source), scaled down so
\* that the eviction loop runs more than once at the modelled capacities
TmpSize == 1

Byte == 0 .. MaxByte

RECURSIVE SeqsUpTo(_)
SeqsUpTo(k) ==
    IF k = 0 THEN { <<>> }
    ELSE LET S == SeqsUpTo(k - 1)
         IN  S \cup { Append(s, b) : s \in { t \in S : Len(t) = k - 1 }, b \in Byte }

\* the byte strings a caller may pass
Inputs == SeqsUpTo(MaxLen)

\* the patterns a caller may search for
Patterns == SeqsUpTo(MaxPat)

Min(a, b) == IF a < b THEN a ELSE b

(* ------------------------------ ringbuf.c ------------------------------ *)
NULL == <<>>

\* memcpy(&dst[doff], &src[soff], cnt) on sequences, 0-based offsets
memcpy(dst, doff, src, soff, cnt) ==
    [i \in 1 .. Len(dst) |->
        IF doff < i /\ i <= doff + cnt THEN src[soff + (i - doff)] ELSE dst[i]]

\* a destination buffer of n bytes before anything is copied into it
Zeros(n) == [i \in 1 .. n |-> 0]

rb_mod(x, cap) == IF cap = 0 THEN 0 ELSE x % cap

rb_at(r, logical_index) == r.data[rb_mod(r.head + logical_index, r.cap) + 1]

\* mem is what malloc(capacity) returned: NULL or capacity bytes of any value
rb_init(r, capacity, mem) ==
    IF capacity = 0 THEN [rb |-> r, ret |-> 0]
    ELSE IF mem = NULL THEN [rb |-> [r EXCEPT !.data = NULL], ret |-> 0]
    ELSE [rb |-> [data |-> mem, cap |-> capacity, head |-> 0, tail |-> 0, size |-> 0],
          ret |-> 1]

\* rb_free that releases the storage but leaves cap, head, tail and size
rb_free_KeepsFields(r) == [r EXCEPT !.data = NULL]

rb_free(r) == [data |-> NULL, cap |-> 0, head |-> 0, tail |-> 0, size |-> 0]

\* rb_clear that forgets head
rb_clear_KeepsHead(r) ==
    IF r.data = NULL THEN r
    ELSE [r EXCEPT !.tail = 0, !.size = 0]

\* rb_clear that zeroes cap as rb_free does
rb_clear_ZeroesCap(r) ==
    IF r.data = NULL THEN r
    ELSE [r EXCEPT !.cap = 0, !.head = 0, !.tail = 0, !.size = 0]

rb_clear(r) ==
    IF r.data = NULL THEN r
    ELSE [r EXCEPT !.head = 0, !.tail = 0, !.size = 0]

rb_capacity(r) == r.cap
rb_size(r) == r.size
rb_free_space(r) == r.cap - r.size

\* rb_push that forgets to wrap tail (tail + n instead of rb_mod(tail + n, cap))
rb_push_NoWrapTail(r, src, n) ==
    IF r.data = NULL \/ n = 0 THEN [rb |-> r, ret |-> 0]
    ELSE LET free_bytes == rb_free_space(r) IN
         IF free_bytes = 0 THEN [rb |-> r, ret |-> 0]
         ELSE LET n1     == IF n > free_bytes THEN free_bytes ELSE n
                  first  == IF r.cap - r.tail > n1 THEN n1 ELSE r.cap - r.tail
                  second == n1 - first
                  d1     == memcpy(r.data, r.tail, src, 0, first)
                  d2     == IF second > 0 THEN memcpy(d1, 0, src, first, second) ELSE d1
              IN  [rb  |-> [r EXCEPT !.data = d2,
                                     !.tail = r.tail + n1,
                                     !.size = r.size + n1],
                   ret |-> n1]

\* rb_push whose second memcpy reads from p instead of p + first
rb_push_SecondFromStart(r, src, n) ==
    IF r.data = NULL \/ n = 0 THEN [rb |-> r, ret |-> 0]
    ELSE LET free_bytes == rb_free_space(r) IN
         IF free_bytes = 0 THEN [rb |-> r, ret |-> 0]
         ELSE LET n1     == IF n > free_bytes THEN free_bytes ELSE n
                  first  == IF r.cap - r.tail > n1 THEN n1 ELSE r.cap - r.tail
                  second == n1 - first
                  d1     == memcpy(r.data, r.tail, src, 0, first)
                  d2     == IF second > 0 THEN memcpy(d1, 0, src, 0, second) ELSE d1
              IN  [rb  |-> [r EXCEPT !.data = d2,
                                     !.tail = rb_mod(r.tail + n1, r.cap),
                                     !.size = r.size + n1],
                   ret |-> n1]

rb_push(r, src, n) ==
    IF r.data = NULL \/ n = 0 THEN [rb |-> r, ret |-> 0]
    ELSE LET free_bytes == rb_free_space(r) IN
         IF free_bytes = 0 THEN [rb |-> r, ret |-> 0]
         ELSE LET n1     == IF n > free_bytes THEN free_bytes ELSE n
                  first  == IF r.cap - r.tail > n1 THEN n1 ELSE r.cap - r.tail
                  second == n1 - first
                  d1     == memcpy(r.data, r.tail, src, 0, first)
                  d2     == IF second > 0 THEN memcpy(d1, 0, src, first, second) ELSE d1
              IN  [rb  |-> [r EXCEPT !.data = d2,
                                     !.tail = rb_mod(r.tail + n1, r.cap),
                                     !.size = r.size + n1],
                   ret |-> n1]

\* rb_pop that lowers size and leaves head where it was
rb_pop_KeepsHead(r, n) ==
    IF r.data = NULL \/ n = 0 THEN [rb |-> r, ret |-> 0, out |-> <<>>]
    ELSE LET used == r.size IN
         IF used = 0 THEN [rb |-> r, ret |-> 0, out |-> <<>>]
         ELSE LET n1     == IF n > used THEN used ELSE n
                  first  == IF r.cap - r.head > n1 THEN n1 ELSE r.cap - r.head
                  second == n1 - first
                  p1     == memcpy(Zeros(n1), 0, r.data, r.head, first)
                  p2     == IF second > 0 THEN memcpy(p1, first, r.data, 0, second) ELSE p1
              IN  [rb  |-> [r EXCEPT !.size = r.size - n1],
                   ret |-> n1,
                   out |-> p2]

\* rb_pop that puts head back at 0 whenever the read reaches the end of data
rb_pop_HeadToZeroAtEnd(r, n) ==
    IF r.data = NULL \/ n = 0 THEN [rb |-> r, ret |-> 0, out |-> <<>>]
    ELSE LET used == r.size IN
         IF used = 0 THEN [rb |-> r, ret |-> 0, out |-> <<>>]
         ELSE LET n1     == IF n > used THEN used ELSE n
                  first  == IF r.cap - r.head > n1 THEN n1 ELSE r.cap - r.head
                  second == n1 - first
                  p1     == memcpy(Zeros(n1), 0, r.data, r.head, first)
                  p2     == IF second > 0 THEN memcpy(p1, first, r.data, 0, second) ELSE p1
              IN  [rb  |-> [r EXCEPT !.head = IF r.head + n1 >= r.cap THEN 0
                                               ELSE r.head + n1,
                                     !.size = r.size - n1],
                   ret |-> n1,
                   out |-> p2]

\* rb_pop without its second memcpy
rb_pop_NoSecondSegment(r, n) ==
    IF r.data = NULL \/ n = 0 THEN [rb |-> r, ret |-> 0, out |-> <<>>]
    ELSE LET used == r.size IN
         IF used = 0 THEN [rb |-> r, ret |-> 0, out |-> <<>>]
         ELSE LET n1     == IF n > used THEN used ELSE n
                  first  == IF r.cap - r.head > n1 THEN n1 ELSE r.cap - r.head
                  p1     == memcpy(Zeros(n1), 0, r.data, r.head, first)
              IN  [rb  |-> [r EXCEPT !.head = rb_mod(r.head + n1, r.cap),
                                     !.size = r.size - n1],
                   ret |-> n1,
                   out |-> p1]

\* out is the part of dst that rb_pop filled
rb_pop(r, n) ==
    IF r.data = NULL \/ n = 0 THEN [rb |-> r, ret |-> 0, out |-> <<>>]
    ELSE LET used == r.size IN
         IF used = 0 THEN [rb |-> r, ret |-> 0, out |-> <<>>]
         ELSE LET n1     == IF n > used THEN used ELSE n
                  first  == IF r.cap - r.head > n1 THEN n1 ELSE r.cap - r.head
                  second == n1 - first
                  p1     == memcpy(Zeros(n1), 0, r.data, r.head, first)
                  p2     == IF second > 0 THEN memcpy(p1, first, r.data, 0, second) ELSE p1
              IN  [rb  |-> [r EXCEPT !.head = rb_mod(r.head + n1, r.cap),
                                     !.size = r.size - n1],
                   ret |-> n1,
                   out |-> p2]

\* rb_peek that starts at head whatever the offset
rb_peek_IgnoresOffset(r, n, offset) ==
    IF r.data = NULL THEN [ret |-> 0, out |-> <<>>]
    ELSE IF offset >= r.size THEN [ret |-> 0, out |-> <<>>]
    ELSE LET remain == r.size - offset
             n1     == IF n > remain THEN remain ELSE n
             start  == rb_mod(r.head, r.cap)
             first  == IF r.cap - start > n1 THEN n1 ELSE r.cap - start
             second == n1 - first
             p1     == memcpy(Zeros(n1), 0, r.data, start, first)
             p2     == IF second > 0 THEN memcpy(p1, first, r.data, 0, second) ELSE p1
         IN  [ret |-> n1, out |-> p2]

rb_peek(r, n, offset) ==
    IF r.data = NULL THEN [ret |-> 0, out |-> <<>>]
    ELSE IF offset >= r.size THEN [ret |-> 0, out |-> <<>>]
    ELSE LET remain == r.size - offset
             n1     == IF n > remain THEN remain ELSE n
             start  == rb_mod(r.head + offset, r.cap)
             first  == IF r.cap - start > n1 THEN n1 ELSE r.cap - start
             second == n1 - first
             p1     == memcpy(Zeros(n1), 0, r.data, start, first)
             p2     == IF second > 0 THEN memcpy(p1, first, r.data, 0, second) ELSE p1
         IN  [ret |-> n1, out |-> p2]

\* the inner while loop of rb_search: the value of k when it stops
RECURSIVE MatchLen(_, _, _, _, _)
MatchLen(r, pat, m, pos, k) ==
    IF k < m /\ rb_at(r, pos + k) = pat[k + 1]
    THEN MatchLen(r, pat, m, pos, k + 1)
    ELSE k

\* the for loop with `pos < limit`: the last position is never tried
RECURSIVE SearchFrom_StopsEarly(_, _, _, _, _)
SearchFrom_StopsEarly(r, pat, m, pos, limit) ==
    IF pos >= limit THEN [found |-> 0, index |-> 0]
    ELSE IF MatchLen(r, pat, m, pos, 0) = m THEN [found |-> 1, index |-> pos]
    ELSE SearchFrom_StopsEarly(r, pat, m, pos + 1, limit)

\* the for loop of rb_search from position pos on
RECURSIVE SearchFrom(_, _, _, _, _)
SearchFrom(r, pat, m, pos, limit) ==
    IF pos > limit THEN [found |-> 0, index |-> 0]
    ELSE IF MatchLen(r, pat, m, pos, 0) = m THEN [found |-> 1, index |-> pos]
    ELSE SearchFrom(r, pat, m, pos + 1, limit)

\* rb_search that rejects the empty pattern like rb_push rejects n == 0
rb_search_EmptyIsNoMatch(r, pat, m) ==
    IF r.data = NULL \/ m = 0 THEN [found |-> 0, index |-> 0]
    ELSE IF m > r.size THEN [found |-> 0, index |-> 0]
    ELSE SearchFrom(r, pat, m, 0, r.size - m)

\* index is *out_index, which the callers set to 0 before the call
rb_search(r, pat, m) ==
    IF r.data = NULL THEN [found |-> 0, index |-> 0]
    ELSE IF m = 0 THEN [found |-> 1, index |-> 0]
    ELSE IF m > r.size THEN [found |-> 0, index |-> 0]
    ELSE SearchFrom(r, pat, m, 0, r.size - m)

(* ------------------------- serial_port/main.c -------------------------- *)
\* the eviction loop without `g_drop_bytes += got`
RECURSIVE EvictLoop_NoCount(_, _, _)
EvictLoop_NoCount(r, need, drop) ==
    IF need = 0 THEN [rb |-> r, drop |-> drop]
    ELSE LET step == IF need > TmpSize THEN TmpSize ELSE need
             res  == rb_pop(r, step)
             got  == res.ret
         IN  IF got = 0 THEN [rb |-> r, drop |-> drop]
             ELSE EvictLoop_NoCount(res.rb, need - got, drop)

\* the while (need) loop of rb_push_overwrite
RECURSIVE EvictLoop(_, _, _)
EvictLoop(r, need, drop) ==
    IF need = 0 THEN [rb |-> r, drop |-> drop]
    ELSE LET step == IF need > TmpSize THEN TmpSize ELSE need
             res  == rb_pop(r, step)
             got  == res.ret
         IN  IF got = 0 THEN [rb |-> r, drop |-> drop]
             ELSE EvictLoop(res.rb, need - got, drop + got)

\* whether the while (need) loop is left by `if (got == 0) break;`
RECURSIVE EvictBreaks(_, _)
EvictBreaks(r, need) ==
    IF need = 0 THEN FALSE
    ELSE LET step == IF need > TmpSize THEN TmpSize ELSE need
             res  == rb_pop(r, step)
             got  == res.ret
         IN  IF got = 0 THEN TRUE
             ELSE EvictBreaks(res.rb, need - got)

\* rb_push_overwrite that makes room by discarding all that is stored
rb_push_overwrite_ClearsToEvict(r, src, n, drop) ==
    LET freeb == rb_free_space(r) IN
    IF n >= r.cap
    THEN LET p == SubSeq(src, (n - r.cap) + 1, n)
         IN  [rb |-> rb_push(rb_clear(r), p, r.cap).rb, drop |-> drop + (n - r.cap)]
    ELSE LET ev == IF n > freeb THEN [rb |-> rb_clear(r), drop |-> drop + r.size]
                   ELSE [rb |-> r, drop |-> drop]
         IN  [rb |-> rb_push(ev.rb, src, n).rb, drop |-> ev.drop]

\* rb_push_overwrite that keeps the first cap bytes of a long input
rb_push_overwrite_KeepsFirst(r, src, n, drop) ==
    LET freeb == rb_free_space(r) IN
    IF n >= r.cap
    THEN LET p == SubSeq(src, 1, r.cap)
         IN  [rb |-> rb_push(rb_clear(r), p, r.cap).rb, drop |-> drop + (n - r.cap)]
    ELSE LET ev == IF n > freeb THEN EvictLoop(r, n - freeb, drop)
                   ELSE [rb |-> r, drop |-> drop]
         IN  [rb |-> rb_push(ev.rb, src, n).rb, drop |-> ev.drop]

\* rb_push_overwrite without the eviction branch
rb_push_overwrite_NoEvict(r, src, n, drop) ==
    IF n >= r.cap
    THEN LET p == SubSeq(src, (n - r.cap) + 1, n)
         IN  [rb |-> rb_push(rb_clear(r), p, r.cap).rb, drop |-> drop + (n - r.cap)]
    ELSE [rb |-> rb_push(r, src, n).rb, drop |-> drop]

\* rb_push_overwrite that makes room for n bytes whatever the free space
\* (need = n instead of need = n - freeb)
rb_push_overwrite_AlwaysEvicts(r, src, n, drop) ==
    IF n >= r.cap
    THEN LET p == SubSeq(src, (n - r.cap) + 1, n)
         IN  [rb |-> rb_push(rb_clear(r), p, r.cap).rb, drop |-> drop + (n - r.cap)]
    ELSE LET ev == EvictLoop(r, n, drop)
         IN  [rb |-> rb_push(ev.rb, src, n).rb, drop |-> ev.drop]

\* drop is g_drop_bytes
rb_push_overwrite(r, src, n, drop) ==
    LET freeb == rb_free_space(r) IN
    IF n >= r.cap
    THEN LET p == SubSeq(src, (n - r.cap) + 1, n)
         IN  [rb |-> rb_push(rb_clear(r), p, r.cap).rb, drop |-> drop + (n - r.cap)]
    ELSE LET ev == IF n > freeb THEN EvictLoop(r, n - freeb, drop)
                   ELSE [rb |-> r, drop |-> drop]
         IN  [rb |-> rb_push(ev.rb, src, n).rb, drop |-> ev.drop]

(* ------------------------------- state --------------------------------- *)
VARIABLES
    g_rb,           \* the RingBuf
    g_drop_bytes,   \* bytes discarded by rb_push_overwrite
    last,           \* the call that has just returned: its arguments, its results
                    \* and the state before it; op is "none" at the prompt
    fifo,           \* the writes since the buffer was last empty
    acct,           \* the bytes written and not yet accounted for
    absq,           \* the bounded queue the byte ring is compared with
    pl              \* the serial terminal: flags, counters, and where its three
                    \* threads are (see the pipeline section)

vars == <<g_rb, g_drop_bytes, last, fifo, acct, absq, pl>>

\* the logical content: the size bytes from head on
Content(r) == [i \in 1 .. r.size |-> rb_at(r, i - 1)]

\* a static RingBuf before rb_init, and any RingBuf after rb_free
Zeroed == [data |-> NULL, cap |-> 0, head |-> 0, tail |-> 0, size |-> 0]

Call(op, src, n, off, ret, out) ==
    [op |-> op, src |-> src, n |-> n, off |-> off, ret |-> ret, out |-> out,
     rb0 |-> g_rb, drop0 |-> g_drop_bytes]

NoCall ==
    [op |-> "none", src |-> <<>>, n |-> 0, off |-> 0, ret |-> 0, out |-> <<>>,
     rb0 |-> Zeroed, drop0 |-> 0]

\* fifo.ok: since the buffer was last empty only rb_push was called, and the
\* requested lengths add up to at most cap; req are the bytes requested, in
\* order, and sum is the sum of the values returned
FifoEmpty == [ok |-> TRUE, req |-> <<>>, sum |-> 0]
FifoOff == [ok |-> FALSE, req |-> <<>>, sum |-> 0]

FifoNext(op, src, ret, r) ==
    IF op = "push" /\ fifo.ok /\ Len(fifo.req) + Len(src) <= r.cap
    THEN [ok |-> TRUE, req |-> fifo.req \o src, sum |-> fifo.sum + ret]
    ELSE IF op \in {"peek", "search", "capacity", "size", "free_space"} THEN fifo
    ELSE IF r.size = 0 THEN FifoEmpty ELSE FifoOff

\* acct.ok: since the last successful rb_init only rb_push_overwrite wrote to
\* the buffer and only rb_pop took bytes out of it; bal is then the number of
\* bytes given to rb_push_overwrite, less the bytes rb_pop returned, less the
\* growth of g_drop_bytes; it is followed until it first differs from size
AcctFresh == [ok |-> TRUE, bal |-> 0]
AcctOff == [ok |-> FALSE, bal |-> 0]

AcctNext(op, n, ret, drop) ==
    IF op = "init" THEN (IF ret = 1 THEN AcctFresh ELSE AcctOff)
    ELSE IF ~acct.ok THEN acct
    ELSE IF acct.bal # g_rb.size THEN AcctOff
    ELSE IF op = "push_overwrite"
         THEN [ok |-> TRUE, bal |-> acct.bal + n - (drop - g_drop_bytes)]
    ELSE IF op = "pop" THEN [ok |-> TRUE, bal |-> acct.bal - ret]
    ELSE IF op \in {"peek", "search", "capacity", "size", "free_space"} THEN acct
    ELSE AcctOff

\* a queue of at most cap bytes (ringbuf.h, header comment): push appends as
\* much of src as fits and returns how much, pop removes up to n bytes from
\* the front and returns them, peek copies without removing
AbsPush(q, cap, src) ==
    LET k == Min(Len(src), cap - Len(q))
    IN  [q |-> q \o SubSeq(src, 1, k), ret |-> k, out |-> <<>>]

AbsPop(q, n) ==
    LET k == Min(n, Len(q))
    IN  [q |-> SubSeq(q, k + 1, Len(q)), ret |-> k, out |-> SubSeq(q, 1, k)]

AbsPeek(q, n, offset) ==
    LET k == IF offset >= Len(q) THEN 0 ELSE Min(n, Len(q) - offset)
    IN  [q |-> q, ret |-> k, out |-> SubSeq(q, offset + 1, offset + k)]

\* absq.ok: since the last successful rb_init only rb_push, rb_pop, rb_peek,
\* rb_clear and the read-only calls were made; q is the queue, ret and out
\* are what the queue answered to the call that has just returned, and bal
\* is the sum of the values rb_push returned less the sum of those rb_pop
\* returned since the last rb_init or rb_clear
AbsFresh(cap) == [ok |-> TRUE, cap |-> cap, q |-> <<>>, bal |-> 0, ret |-> 0, out |-> <<>>]
AbsOff == [ok |-> FALSE, cap |-> 0, q |-> <<>>, bal |-> 0, ret |-> 0, out |-> <<>>]

AbsStep(a, ret) ==
    [ok |-> TRUE, cap |-> absq.cap, q |-> a.q, bal |-> absq.bal + ret,
     ret |-> a.ret, out |-> a.out]

AbsNext(op, src, n, offset, ret) ==
    IF op = "init" THEN (IF ret = 1 THEN AbsFresh(n) ELSE AbsOff)
    ELSE IF ~absq.ok THEN AbsOff
    ELSE IF op = "clear" THEN AbsFresh(absq.cap)
    ELSE IF op = "push" THEN AbsStep(AbsPush(absq.q, absq.cap, src), ret)
    ELSE IF op = "pop" THEN AbsStep(AbsPop(absq.q, n), 0 - ret)
    ELSE IF op = "peek" THEN AbsStep(AbsPeek(absq.q, n, offset), 0)
    ELSE AbsOff

\* the ring buffer used on its own (ringbuf/main.c): no threads
NoPipeline == [pcM |-> "none"]

\* after a successful rb_init of a zeroed RingBuf
Init ==
    /\ \E capacity \in 1 .. MaxCap : \E mem \in [1 .. capacity -> Byte] :
          /\ g_rb = rb_init(Zeroed, capacity, mem).rb
          /\ last = [op |-> "init", src |-> <<>>, n |-> capacity, off |-> 0, ret |-> 1,
                     out |-> <<>>, rb0 |-> Zeroed, drop0 |-> 0]
    /\ g_drop_bytes = 0
    /\ fifo = FifoEmpty
    /\ acct = AcctFresh
    /\ absq = AbsFresh(g_rb.cap)
    /\ pl = NoPipeline

(* ------------------------------ actions -------------------------------- *)
\* rb_init is only called on a RingBuf that holds no storage
RbInit ==
    /\ last.op = "none"
    /\ pl' = pl
    /\ g_rb.data = NULL
    /\ \E capacity \in 0 .. MaxCap : \E mem \in [1 .. capacity -> Byte] \cup {NULL} :
          LET res == rb_init(g_rb, capacity, mem) IN
          /\ g_rb' = res.rb
          /\ last' = Call("init", <<>>, capacity, 0, res.ret, <<>>)
          /\ fifo' = FifoNext("init", <<>>, res.ret, res.rb)
          /\ acct' = AcctNext("init", capacity, res.ret, g_drop_bytes)
          /\ absq' = AbsNext("init", <<>>, capacity, 0, res.ret)
    /\ UNCHANGED g_drop_bytes

RbFree ==
    /\ last.op = "none"
    /\ pl' = pl
    /\ g_rb' = rb_free(g_rb)
    /\ last' = Call("free", <<>>, 0, 0, 0, <<>>)
    /\ fifo' = FifoNext("free", <<>>, 0, g_rb')
    /\ acct' = AcctNext("free", 0, 0, g_drop_bytes)
    /\ absq' = AbsNext("free", <<>>, 0, 0, 0)
    /\ UNCHANGED g_drop_bytes

RbClear ==
    /\ last.op = "none"
    /\ pl' = pl
    /\ g_rb' = rb_clear(g_rb)
    /\ last' = Call("clear", <<>>, 0, 0, 0, <<>>)
    /\ fifo' = FifoNext("clear", <<>>, 0, g_rb')
    /\ acct' = AcctNext("clear", 0, 0, g_drop_bytes)
    /\ absq' = AbsNext("clear", <<>>, 0, 0, 0)
    /\ UNCHANGED g_drop_bytes

RbPush ==
    /\ last.op = "none"
    /\ pl' = pl
    /\ \E src \in Inputs :
       LET res == rb_push(g_rb, src, Len(src)) IN
       /\ g_rb' = res.rb
       /\ last' = Call("push", src, Len(src), 0, res.ret, <<>>)
       /\ fifo' = FifoNext("push", src, res.ret, res.rb)
       /\ acct' = AcctNext("push", Len(src), res.ret, g_drop_bytes)
       /\ absq' = AbsNext("push", src, Len(src), 0, res.ret)
       /\ UNCHANGED g_drop_bytes

RbPop ==
    /\ last.op = "none"
    /\ pl' = pl
    /\ \E n \in 0 .. MaxLen :
       LET res == rb_pop(g_rb, n) IN
       /\ g_rb' = res.rb
       /\ last' = Call("pop", <<>>, n, 0, res.ret, res.out)
       /\ fifo' = FifoNext("pop", <<>>, res.ret, res.rb)
       /\ acct' = AcctNext("pop", n, res.ret, g_drop_bytes)
       /\ absq' = AbsNext("pop", <<>>, n, 0, res.ret)
       /\ UNCHANGED g_drop_bytes

\* a peek that moves head past what it returned
RbPeek_Consumes ==
    /\ last.op = "none"
    /\ pl' = pl
    /\ \E n \in 0 .. MaxLen : \E offset \in 0 .. MaxLen :
       LET res == rb_peek(g_rb, n, offset) IN
       /\ g_rb' = [g_rb EXCEPT !.head = rb_mod(g_rb.head + res.ret, g_rb.cap),
                               !.size = g_rb.size - res.ret]
       /\ last' = Call("peek", <<>>, n, offset, res.ret, res.out)
       /\ fifo' = FifoNext("peek", <<>>, res.ret, g_rb)
       /\ acct' = AcctNext("peek", n, res.ret, g_drop_bytes)
       /\ absq' = AbsNext("peek", <<>>, n, offset, res.ret)
       /\ UNCHANGED g_drop_bytes

RbPeek ==
    /\ last.op = "none"
    /\ pl' = pl
    /\ \E n \in 0 .. MaxLen : \E offset \in 0 .. MaxLen :
       LET res == rb_peek(g_rb, n, offset) IN
       /\ last' = Call("peek", <<>>, n, offset, res.ret, res.out)
       /\ fifo' = FifoNext("peek", <<>>, res.ret, g_rb)
       /\ acct' = AcctNext("peek", n, res.ret, g_drop_bytes)
       /\ absq' = AbsNext("peek", <<>>, n, offset, res.ret)
       /\ UNCHANGED <<g_rb, g_drop_bytes>>

RbSearch ==
    /\ last.op = "none"
    /\ pl' = pl
    /\ \E pat \in Patterns :
       LET res == rb_search(g_rb, pat, Len(pat)) IN
       /\ last' = Call("search", pat, Len(pat), res.index, res.found, <<>>)
       /\ fifo' = FifoNext("search", pat, res.found, g_rb)
       /\ acct' = AcctNext("search", Len(pat), res.found, g_drop_bytes)
       /\ UNCHANGED <<g_rb, g_drop_bytes, absq>>

\* the cap, size and free commands
RbCapacity ==
    /\ last.op = "none"
    /\ pl' = pl
    /\ last' = Call("capacity", <<>>, 0, 0, rb_capacity(g_rb), <<>>)
    /\ UNCHANGED <<g_rb, g_drop_bytes, fifo, acct, absq>>

RbSize ==
    /\ last.op = "none"
    /\ pl' = pl
    /\ last' = Call("size", <<>>, 0, 0, rb_size(g_rb), <<>>)
    /\ UNCHANGED <<g_rb, g_drop_bytes, fifo, acct, absq>>

RbFreeSpace ==
    /\ last.op = "none"
    /\ pl' = pl
    /\ last' = Call("free_space", <<>>, 0, 0, rb_free_space(g_rb), <<>>)
    /\ UNCHANGED <<g_rb, g_drop_bytes, fifo, acct, absq>>

RbPushOverwrite ==
    /\ last.op = "none"
    /\ pl' = pl
    /\ \E src \in Inputs :
       LET res == rb_push_overwrite(g_rb, src, Len(src), g_drop_bytes) IN
       /\ res.drop <= MaxDrop
       /\ g_rb' = res.rb
       /\ g_drop_bytes' = res.drop
       /\ last' = Call("push_overwrite", src, Len(src), 0, 0, <<>>)
       /\ fifo' = FifoNext("push_overwrite", src, 0, res.rb)
       /\ acct' = AcctNext("push_overwrite", Len(src), 0, res.drop)
       /\ absq' = AbsNext("push_overwrite", src, Len(src), 0, 0)

\* back at the prompt: the results of the finished command are gone
Prompt ==
    /\ last.op # "none"
    /\ pl' = pl
    /\ last' = NoCall
    /\ absq' = [absq EXCEPT !.ret = 0, !.out = <<>>]
    /\ UNCHANGED <<g_rb, g_drop_bytes, fifo, acct>>

Next ==
    \/ Prompt
    \/ RbInit
    \/ RbFree
    \/ RbClear
    \/ RbPush
    \/ RbPop
    \/ RbPeek
    \/ RbSearch
    \/ RbCapacity
    \/ RbSize
    \/ RbFreeSpace
    \/ RbPushOverwrite

Spec == Init /\ [][Next]_vars

(* ------------- a RingBuf declared without an initialiser --------------- *)
\* `RingBuf rb;` in ringbuf/main.c: the fields hold whatever was in memory.
\* Of the indeterminate values only some that look like a RingBuf are kept:
\* no storage or one byte of storage, cap 0 or 1, size <= cap, cursors at 0.
Garbage ==
    { [data |-> dt, cap |-> c, head |-> 0, tail |-> 0, size |-> sz] :
          dt \in {NULL} \cup [1 .. 1 -> Byte], c \in 0 .. 1, sz \in 0 .. 1 }

InitLocal ==
    /\ g_rb \in { g \in Garbage : g.size <= g.cap /\ (g.data # NULL => g.cap = 1) }
    /\ last = [op |-> "decl", src |-> <<>>, n |-> 0, off |-> 0, ret |-> 0,
               out |-> <<>>, rb0 |-> Zeroed, drop0 |-> 0]
    /\ g_drop_bytes = 0
    /\ fifo = FifoOff
    /\ acct = AcctOff
    /\ absq = AbsOff
    /\ pl = NoPipeline

\* the first rb_init of the declared RingBuf
RbInitFirst ==
    /\ last.op = "decl"
    /\ pl' = pl
    /\ \E capacity \in 0 .. MaxCap : \E mem \in [1 .. capacity -> Byte] \cup {NULL} :
          LET res == rb_init(g_rb, capacity, mem) IN
          /\ g_rb' = res.rb
          /\ last' = Call("init", <<>>, capacity, 0, res.ret, <<>>)
          /\ fifo' = IF res.ret = 1 THEN FifoEmpty ELSE FifoOff
          /\ acct' = IF res.ret = 1 THEN AcctFresh ELSE AcctOff
          /\ absq' = AbsNext("init", <<>>, capacity, 0, res.ret)
    /\ UNCHANGED g_drop_bytes

NextLocal ==
    \/ RbInitFirst
    \/ Next

SpecLocal == InitLocal /\ [][NextLocal]_vars

(* ------------- the serial terminal (serial_port/main.c) ---------------- *)
\* RB_CAP (64 * 1024 in the source) and the two 4096-byte buffers of the
\* threads, scaled down; a chunk stays shorter than the ring, as in the source
RB_CAP == 3
ReaderBuf == 2
PrinterBuf == 2
\* sp_read delivers at most MaxRx bytes in all
MaxRx == 4

\* what one sp_read can deliver after k bytes: 1 .. sizeof(buf) bytes, and
\* sizeof(buf) = 4096 is less than RB_CAP whatever the scaling. No
\* rb_* function and no thread branches on the value of a byte, so the line
\* is taken to carry a counter: its j-th byte is j modulo MaxByte + 1.
Chunks(k) ==
    { [i \in 1 .. len |-> (k + i - 1) % (MaxByte + 1)] : len \in 1 .. Min(ReaderBuf, RB_CAP - 1) }

\* the first k bytes the line has carried
Stream(k) == [j \in 1 .. k |-> (j - 1) % (MaxByte + 1)]

\* The state after main has initialised g_rb and started both threads. The
\* bytes malloc leaves in the storage are never read before they are written,
\* so they are fixed to 0 here.
\* pl.build: a POSIX build (pthread_join) or a Windows build
\* (WaitForSingleObject with a timeout); pl.frees counts the rb_free calls.
\* rbuf, rn, rp, freeb, need, rgot are the locals of reader_thread and of
\* rb_push_overwrite, pwant those of printer_thread, mn that of the dump
\* command; they are reset when they go out of scope. pl.out is what the
\* printer printed last, pl.logf whether g_logf is an open file, pl.rtscts
\* the field g_sp.rtscts.
InitPipe ==
    /\ g_rb = rb_init(Zeroed, RB_CAP, Zeros(RB_CAP)).rb
    /\ g_drop_bytes = 0
    /\ \E b \in {"posix", "win32"} :
          pl = [build |-> b, run_reader |-> TRUE, run_printer |-> TRUE, live |-> TRUE,
                open |-> FALSE, total_rx |-> 0, frees |-> 0,
                pcM |-> "m_cmd", pcR |-> "r_loop", pcP |-> "p_loop",
                rbuf |-> <<>>, rn |-> 0, rp |-> <<>>, freeb |-> 0, need |-> 0, rgot |-> 0,
                pwant |-> 0, mn |-> 0, out |-> <<>>,
                total_tx |-> 0, view |-> "ascii", logf |-> FALSE, rtscts |-> FALSE]
    /\ last = NoCall
    /\ fifo = FifoOff
    /\ acct = AcctOff
    /\ absq = AbsOff

Ghosts == UNCHANGED <<last, fifo, acct, absq>>

(* reader_thread *)
R_Loop ==
    /\ pl.pcM # "none" /\ pl.pcR = "r_loop"
    /\ pl' = [pl EXCEPT !.pcR = IF pl.run_reader THEN "r_open" ELSE "done"]
    /\ UNCHANGED <<g_rb, g_drop_bytes>> /\ Ghosts

\* if (!sp_is_open(&g_sp)) { ms_sleep(100); continue; }
R_Open ==
    /\ pl.pcM # "none" /\ pl.pcR = "r_open"
    /\ pl' = [pl EXCEPT !.pcR = IF pl.open THEN "r_read" ELSE "r_loop"]
    /\ UNCHANGED <<g_rb, g_drop_bytes>> /\ Ghosts

\* a reader that gives up on r <= 0
R_Read_ErrorEndsThread ==
    /\ pl.pcM # "none" /\ pl.pcR = "r_read"
    /\ \/ pl' = [pl EXCEPT !.pcR = "done"]
       \/ \E c \in Chunks(pl.total_rx) :
             /\ pl.total_rx + Len(c) <= MaxRx
             /\ pl' = [pl EXCEPT !.pcR = "ow_free", !.rbuf = c, !.rn = Len(c)]
    /\ UNCHANGED <<g_rb, g_drop_bytes>> /\ Ghosts

\* sp_read: an error or a timeout (r <= 0), or a chunk of r > 0 bytes
R_Read ==
    /\ pl.pcM # "none" /\ pl.pcR = "r_read"
    /\ \/ pl' = [pl EXCEPT !.pcR = "r_loop"]
       \/ \E c \in Chunks(pl.total_rx) :
             /\ pl.total_rx + Len(c) <= MaxRx
             /\ pl' = [pl EXCEPT !.pcR = "ow_free", !.rbuf = c, !.rn = Len(c)]
    /\ UNCHANGED <<g_rb, g_drop_bytes>> /\ Ghosts

(* rb_push_overwrite(&g_rb, buf, r), one rb_* call or counter update a step *)
OW_Free ==
    /\ pl.pcM # "none" /\ pl.pcR = "ow_free"
    /\ pl' = [pl EXCEPT !.pcR = "ow_test", !.freeb = rb_free_space(g_rb)]
    /\ UNCHANGED <<g_rb, g_drop_bytes>> /\ Ghosts

OW_Test ==
    /\ pl.pcM # "none" /\ pl.pcR = "ow_test"
    /\ pl' = IF pl.rn >= g_rb.cap
             THEN [pl EXCEPT !.pcR = "ow_clear",
                             !.rp = SubSeq(pl.rbuf, (pl.rn - g_rb.cap) + 1, pl.rn)]
             ELSE IF pl.rn > pl.freeb
             THEN [pl EXCEPT !.pcR = "ow_pop", !.need = pl.rn - pl.freeb]
             ELSE [pl EXCEPT !.pcR = "ow_push"]
    /\ UNCHANGED <<g_rb, g_drop_bytes>> /\ Ghosts

OW_Clear ==
    /\ pl.pcM # "none" /\ pl.pcR = "ow_clear"
    /\ g_rb' = rb_clear(g_rb)
    /\ pl' = [pl EXCEPT !.pcR = "ow_tail"]
    /\ UNCHANGED g_drop_bytes /\ Ghosts

OW_Tail ==
    /\ pl.pcM # "none" /\ pl.pcR = "ow_tail"
    /\ g_rb' = rb_push(g_rb, pl.rp, g_rb.cap).rb
    /\ pl' = [pl EXCEPT !.pcR = "ow_surplus"]
    /\ UNCHANGED g_drop_bytes /\ Ghosts

OW_Surplus ==
    /\ pl.pcM # "none" /\ pl.pcR = "ow_surplus"
    /\ g_drop_bytes' = g_drop_bytes + (pl.rn - g_rb.cap)
    /\ pl' = [pl EXCEPT !.pcR = "r_rx"]
    /\ UNCHANGED g_rb /\ Ghosts

\* the eviction loop without its `if (got == 0) break;`
OW_Pop_NoBreak ==
    /\ pl.pcM # "none" /\ pl.pcR = "ow_pop"
    /\ LET step == IF pl.need > TmpSize THEN TmpSize ELSE pl.need
           res  == rb_pop(g_rb, step)
       IN  /\ g_rb' = res.rb
           /\ pl' = IF res.ret = 0
                    THEN pl
                    ELSE [pl EXCEPT !.pcR = "ow_count", !.need = pl.need - res.ret,
                                    !.rgot = res.ret]
    /\ UNCHANGED g_drop_bytes /\ Ghosts

\* one round of while (need): rb_pop, break on 0, need -= got
OW_Pop ==
    /\ pl.pcM # "none" /\ pl.pcR = "ow_pop"
    /\ LET step == IF pl.need > TmpSize THEN TmpSize ELSE pl.need
           res  == rb_pop(g_rb, step)
       IN  /\ g_rb' = res.rb
           /\ pl' = IF res.ret = 0
                    THEN [pl EXCEPT !.pcR = "ow_push"]
                    ELSE [pl EXCEPT !.pcR = "ow_count", !.need = pl.need - res.ret,
                                    !.rgot = res.ret]
    /\ UNCHANGED g_drop_bytes /\ Ghosts

\* g_drop_bytes += got, then the loop test
OW_Count ==
    /\ pl.pcM # "none" /\ pl.pcR = "ow_count"
    /\ g_drop_bytes' = g_drop_bytes + pl.rgot
    /\ pl' = [pl EXCEPT !.pcR = IF pl.need = 0 THEN "ow_push" ELSE "ow_pop", !.rgot = 0]
    /\ UNCHANGED g_rb /\ Ghosts

OW_Push ==
    /\ pl.pcM # "none" /\ pl.pcR = "ow_push"
    /\ g_rb' = rb_push(g_rb, pl.rbuf, pl.rn).rb
    /\ pl' = [pl EXCEPT !.pcR = "r_rx"]
    /\ UNCHANGED g_drop_bytes /\ Ghosts

\* g_total_rx += r, and the end of the loop body
R_Rx ==
    /\ pl.pcM # "none" /\ pl.pcR = "r_rx"
    /\ pl' = [pl EXCEPT !.pcR = "r_loop", !.total_rx = pl.total_rx + pl.rn,
                        !.rbuf = <<>>, !.rn = 0, !.rp = <<>>, !.freeb = 0, !.need = 0]
    /\ UNCHANGED <<g_rb, g_drop_bytes>> /\ Ghosts

Reader ==
    \/ R_Loop \/ R_Open \/ R_Read \/ OW_Free \/ OW_Test \/ OW_Clear \/ OW_Tail
    \/ OW_Surplus \/ OW_Pop \/ OW_Count \/ OW_Push \/ R_Rx

(* printer_thread *)
P_Loop ==
    /\ pl.pcM # "none" /\ pl.pcP = "p_loop"
    /\ pl' = [pl EXCEPT !.pcP = IF pl.run_printer THEN "p_live" ELSE "done"]
    /\ UNCHANGED <<g_rb, g_drop_bytes>> /\ Ghosts

\* a printer that does not look at g_live
P_Live_IgnoresToggle ==
    /\ pl.pcM # "none" /\ pl.pcP = "p_live"
    /\ pl' = [pl EXCEPT !.pcP = "p_size"]
    /\ UNCHANGED <<g_rb, g_drop_bytes>> /\ Ghosts

\* the printer waiting for live on without looking at its run flag
P_Live_SpinsOnLive ==
    /\ pl.pcM # "none" /\ pl.pcP = "p_live"
    /\ pl' = [pl EXCEPT !.pcP = IF pl.live THEN "p_size" ELSE "p_live"]
    /\ UNCHANGED <<g_rb, g_drop_bytes>> /\ Ghosts

\* if (!atomic_load(&g_live)) { ms_sleep(50); continue; }
P_Live ==
    /\ pl.pcM # "none" /\ pl.pcP = "p_live"
    /\ pl' = [pl EXCEPT !.pcP = IF pl.live THEN "p_size" ELSE "p_loop"]
    /\ UNCHANGED <<g_rb, g_drop_bytes>> /\ Ghosts

\* avail = rb_size(&g_rb); 0: sleep and continue; else want = min(avail, sizeof(buf))
P_Size ==
    /\ pl.pcM # "none" /\ pl.pcP = "p_size"
    /\ LET avail == rb_size(g_rb) IN
       pl' = IF avail = 0 THEN [pl EXCEPT !.pcP = "p_loop"]
             ELSE [pl EXCEPT !.pcP = "p_pop",
                             !.pwant = IF avail > PrinterBuf THEN PrinterBuf ELSE avail]
    /\ UNCHANGED <<g_rb, g_drop_bytes>> /\ Ghosts

\* got = rb_pop(&g_rb, buf, want); if (got) the got bytes of buf are printed
P_Pop ==
    /\ pl.pcM # "none" /\ pl.pcP = "p_pop"
    /\ LET res == rb_pop(g_rb, pl.pwant) IN
          /\ g_rb' = res.rb
          /\ pl' = [pl EXCEPT !.pcP = "p_loop", !.pwant = 0,
                              !.out = IF res.ret > 0 THEN SubSeq(res.out, 1, res.ret)
                                      ELSE pl.out]
    /\ UNCHANGED g_drop_bytes /\ Ghosts

Printer == P_Loop \/ P_Live \/ P_Size \/ P_Pop

(* main: the command loop and the shutdown *)
\* live on | off
M_Live ==
    /\ pl.pcM = "m_cmd"
    /\ \E v \in BOOLEAN : pl' = [pl EXCEPT !.live = v]
    /\ UNCHANGED <<g_rb, g_drop_bytes>> /\ Ghosts

\* open <port> <baud>: sp_close if open, then sp_open succeeds or fails;
\* its memset clears g_sp.rtscts either way
M_Open ==
    /\ pl.pcM = "m_cmd"
    /\ \E ok \in BOOLEAN : pl' = [pl EXCEPT !.open = ok, !.rtscts = FALSE]
    /\ UNCHANGED <<g_rb, g_drop_bytes>> /\ Ghosts

M_Close ==
    /\ pl.pcM = "m_cmd"
    /\ pl' = [pl EXCEPT !.open = FALSE]
    /\ UNCHANGED <<g_rb, g_drop_bytes>> /\ Ghosts

\* dump, size, free, stat, and exit / quit / end of input
M_Dispatch ==
    /\ pl.pcM = "m_cmd"
    /\ \E c \in {"m_dump_size", "m_size", "m_free", "m_stat", "m_stop_reader"} :
          pl' = [pl EXCEPT !.pcM = c]
    /\ UNCHANGED <<g_rb, g_drop_bytes>> /\ Ghosts

\* dump [N]: n = N, or 256; avail = rb_size(&g_rb); if (n > avail) n = avail
M_DumpSize ==
    /\ pl.pcM = "m_dump_size"
    /\ \E n \in 1 .. RB_CAP + 1 :
          pl' = [pl EXCEPT !.pcM = "m_dump_peek", !.mn = Min(n, rb_size(g_rb))]
    /\ UNCHANGED <<g_rb, g_drop_bytes>> /\ Ghosts

\* a dump that takes the bytes out of the buffer
M_DumpPeek_Pops ==
    /\ pl.pcM = "m_dump_peek"
    /\ g_rb' = rb_pop(g_rb, pl.mn).rb
    /\ pl' = [pl EXCEPT !.pcM = "m_cmd", !.mn = 0]
    /\ UNCHANGED g_drop_bytes /\ Ghosts

\* got = rb_peek(&g_rb, buf, n, 0), which leaves g_rb as it is; the bytes
\* are printed
M_DumpPeek ==
    /\ pl.pcM = "m_dump_peek"
    /\ pl' = [pl EXCEPT !.pcM = "m_cmd", !.mn = 0]
    /\ UNCHANGED <<g_rb, g_drop_bytes>> /\ Ghosts

\* size, free, stat: rb_size / rb_free_space / rb_capacity and the counters
\* are read and printed
M_Query ==
    /\ pl.pcM \in {"m_size", "m_free", "m_stat"}
    /\ pl' = [pl EXCEPT !.pcM = "m_cmd"]
    /\ UNCHANGED <<g_rb, g_drop_bytes>> /\ Ghosts

M_StopReader ==
    /\ pl.pcM = "m_stop_reader"
    /\ pl' = [pl EXCEPT !.pcM = "m_stop_printer", !.run_reader = FALSE]
    /\ UNCHANGED <<g_rb, g_drop_bytes>> /\ Ghosts

\* atomic_store(&g_run_printer, false); ms_sleep(100)
M_StopPrinter ==
    /\ pl.pcM = "m_stop_printer"
    /\ pl' = [pl EXCEPT !.pcM = "m_join_reader", !.run_printer = FALSE]
    /\ UNCHANGED <<g_rb, g_drop_bytes>> /\ Ghosts

\* pthread_join(thReader) returns when the thread has ended;
\* WaitForSingleObject(hReader, 500) returns then, or when 500 ms have passed
M_JoinReader ==
    /\ pl.pcM = "m_join_reader"
    /\ pl.pcR = "done" \/ pl.build = "win32"
    /\ pl' = [pl EXCEPT !.pcM = "m_join_printer"]
    /\ UNCHANGED <<g_rb, g_drop_bytes>> /\ Ghosts

M_JoinPrinter ==
    /\ pl.pcM = "m_join_printer"
    /\ pl.pcP = "done" \/ pl.build = "win32"
    /\ pl' = [pl EXCEPT !.pcM = "m_close"]
    /\ UNCHANGED <<g_rb, g_drop_bytes>> /\ Ghosts

\* if (sp_is_open(&g_sp)) sp_close(&g_sp)
M_ClosePort ==
    /\ pl.pcM = "m_close"
    /\ pl' = [pl EXCEPT !.pcM = "m_rb_free", !.open = FALSE]
    /\ UNCHANGED <<g_rb, g_drop_bytes>> /\ Ghosts

\* rb_free(&g_rb); return 0
M_RbFree ==
    /\ pl.pcM = "m_rb_free"
    /\ g_rb' = rb_free(g_rb)
    /\ pl' = [pl EXCEPT !.pcM = "m_done", !.frees = pl.frees + 1]
    /\ UNCHANGED g_drop_bytes /\ Ghosts

Main ==
    \/ M_Live \/ M_Open \/ M_Close \/ M_Dispatch \/ M_DumpSize \/ M_DumpPeek \/ M_Query
    \/ M_StopReader \/ M_StopPrinter \/ M_JoinReader \/ M_JoinPrinter \/ M_ClosePort
    \/ M_RbFree

NextPipe == Reader \/ Printer \/ Main

(* the other commands of the terminal *)
\* sp_write sends at most MaxTx bytes in all
MaxTx == 1

\* a tx command that adds w whatever its sign
M_Tx_CountsErrors ==
    /\ pl.pcM = "m_cmd"
    /\ \E w \in -1 .. MaxTx :
          /\ pl.total_tx + w <= MaxTx
          /\ pl' = IF pl.open THEN [pl EXCEPT !.total_tx = pl.total_tx + w] ELSE pl
    /\ UNCHANGED <<g_rb, g_drop_bytes>> /\ Ghosts

\* txs <text> / txx <hex>: refused while the port is closed; w = sp_write(...)
\* is -1 (error), 0, or the number of bytes written; if (w > 0) g_total_tx += w
M_Tx ==
    /\ pl.pcM = "m_cmd"
    /\ \E w \in -1 .. MaxTx :
          /\ pl.total_tx + w <= MaxTx
          /\ pl' = IF pl.open /\ w > 0 THEN [pl EXCEPT !.total_tx = pl.total_tx + w]
                   ELSE pl
    /\ UNCHANGED <<g_rb, g_drop_bytes>> /\ Ghosts

\* mode ascii | hex
M_Mode ==
    /\ pl.pcM = "m_cmd"
    /\ \E v \in {"ascii", "hex"} : pl' = [pl EXCEPT !.view = v]
    /\ UNCHANGED <<g_rb, g_drop_bytes>> /\ Ghosts

\* log on [file]: fclose if open, then fopen succeeds or fails; log off
M_Log ==
    /\ pl.pcM = "m_cmd"
    /\ \E f \in BOOLEAN : pl' = [pl EXCEPT !.logf = f]
    /\ UNCHANGED <<g_rb, g_drop_bytes>> /\ Ghosts

\* rtscts on | off: refused while the port is closed; sp_set_rtscts records
\* the setting when tcsetattr / SetCommState succeeds
M_Rtscts ==
    /\ pl.pcM = "m_cmd"
    /\ \E en \in BOOLEAN, ok \in BOOLEAN :
          pl' = IF pl.open /\ ok THEN [pl EXCEPT !.rtscts = en] ELSE pl
    /\ UNCHANGED <<g_rb, g_drop_bytes>> /\ Ghosts

\* the commands of the loop, without the shutdown that follows it
Controller ==
    \/ M_Live \/ M_Open \/ M_Close \/ M_Dispatch \/ M_DumpSize \/ M_DumpPeek \/ M_Query
    \/ M_Tx \/ M_Mode \/ M_Log \/ M_Rtscts

NextCtl == NextPipe \/ M_Tx \/ M_Mode \/ M_Log \/ M_Rtscts

\* the command loop and the threads are the same code in both builds, and
\* every behaviour of the shutdown with pthread_join is also one of the
\* shutdown with WaitForSingleObject
InitCtl == InitPipe /\ pl.build = "win32"

SpecCtl == InitCtl /\ [][NextCtl]_vars

SpecPipe == InitPipe /\ [][NextPipe]_vars

\* the two threads are scheduled fairly, and sp_read and ms_sleep return
SpecPipeFair == SpecPipe /\ WF_vars(Reader) /\ WF_vars(Printer)

\* where each thread is inside a call on g_rb: the reader from the entry of
\* rb_push_overwrite to its return, the printer between its rb_size and the
\* return of its rb_pop, main inside dump, size, free or stat
ReaderInRb ==
    pl.pcR \in {"ow_free", "ow_test", "ow_clear", "ow_tail", "ow_surplus", "ow_pop",
                "ow_count", "ow_push"}
PrinterInRb == pl.pcP = "p_pop"
ControllerInRb == pl.pcM \in {"m_dump_peek", "m_size", "m_free", "m_stat"}

(* ---- reader_thread and printer_thread, one C statement at a time ------ *)
\* Nothing in serial_port/main.c serialises the calls on g_rb, so the
\* statements of rb_push_overwrite, rb_push and rb_pop of the two threads
\* interleave. A step is one statement that touches g_rb together with the
\* statements on locals that follow it; port open, live on, flags set.

\* size_t arithmetic is modulo SizeT (2^64 in the source)
SizeT == 16
\* the printer renders at most about MaxOut bytes
MaxOut == 4

SubT(a, b) == (a - b + SizeT) % SizeT
AddT(a, b) == (a + b) % SizeT

\* the j-th byte received carries j, so that every received byte is told
\* apart from every other and from the bytes malloc left (0); a chunk is
\* shorter than the ring (sizeof(buf) = 4096 < RB_CAP)
ChunkAt(k, len) == [i \in 1 .. len |-> k + i]
RaceLens == 1 .. Min(ReaderBuf, RB_CAP - 1)

\* memcpy(p, &rb->data[rb->head], first); memcpy(p + first, &rb->data[0], second)
CopyOut(r, n) ==
    LET first  == Min(r.cap - r.head, n)
        second == n - first
        p1     == memcpy(Zeros(n), 0, r.data, r.head, first)
    IN  IF second > 0 THEN memcpy(p1, first, r.data, 0, second) ELSE p1

\* memcpy(&rb->data[rb->tail], p, first); memcpy(&rb->data[0], p + first, second)
CopyIn(r, src, n) ==
    LET first  == Min(r.cap - r.tail, n)
        second == n - first
        d1     == memcpy(r.data, r.tail, src, 0, first)
    IN  IF second > 0 THEN memcpy(d1, 0, src, first, second) ELSE d1

\* rendered: the bytes the printer has printed; evicted: the bytes the
\* reader has popped and counted in g_drop_bytes
InitRace ==
    /\ g_rb = rb_init(Zeroed, RB_CAP, Zeros(RB_CAP)).rb
    /\ g_drop_bytes = 0
    /\ pl = [pcM |-> "race", pcR |-> "r_read", pcP |-> "p_size", total_rx |-> 0,
             rbuf |-> <<>>, rn |-> 0, need |-> 0, en |-> 0, tmp |-> <<>>, wn |-> 0,
             want |-> 0, pn |-> 0, pbuf |-> <<>>, rendered |-> <<>>, evicted |-> {}]
    /\ last = NoCall
    /\ fifo = FifoOff
    /\ acct = AcctOff
    /\ absq = AbsOff

\* r = sp_read(&g_sp, buf, sizeof(buf)) with r > 0
S_Read ==
    /\ pl.pcM = "race" /\ pl.pcR = "r_read"
    /\ \E len \in RaceLens :
          /\ pl.total_rx + len <= MaxRx
          /\ pl' = [pl EXCEPT !.pcR = "ow_free", !.rbuf = ChunkAt(pl.total_rx, len),
                              !.rn = len]
    /\ UNCHANGED <<g_rb, g_drop_bytes>> /\ Ghosts

\* rb_push_overwrite: freeb = rb_free_space(rb); n < rb->cap; if (n > freeb)
\* need = n - freeb
S_OwFree ==
    /\ pl.pcM = "race" /\ pl.pcR = "ow_free"
    /\ LET freeb == SubT(g_rb.cap, g_rb.size) IN
       pl' = IF pl.rn > freeb
             THEN [pl EXCEPT !.pcR = "e_used", !.need = pl.rn - freeb]
             ELSE [pl EXCEPT !.pcR = "w_free"]
    /\ UNCHANGED <<g_rb, g_drop_bytes>> /\ Ghosts

\* rb_pop(rb, tmp, step): used = rb->size; 0 ends the loop; n = min(step, used)
S_EvUsed ==
    /\ pl.pcM = "race" /\ pl.pcR = "e_used"
    /\ LET step == Min(pl.need, TmpSize)
           used == g_rb.size
       IN  pl' = IF used = 0 THEN [pl EXCEPT !.pcR = "w_free", !.need = 0]
                 ELSE [pl EXCEPT !.pcR = "e_copy", !.en = Min(step, used)]
    /\ UNCHANGED <<g_rb, g_drop_bytes>> /\ Ghosts

S_EvCopy ==
    /\ pl.pcM = "race" /\ pl.pcR = "e_copy"
    /\ pl' = [pl EXCEPT !.pcR = "e_head", !.tmp = CopyOut(g_rb, pl.en)]
    /\ UNCHANGED <<g_rb, g_drop_bytes>> /\ Ghosts

\* rb->head = rb_mod(rb->head + n, rb->cap)
S_EvHead ==
    /\ pl.pcM = "race" /\ pl.pcR = "e_head"
    /\ g_rb' = [g_rb EXCEPT !.head = rb_mod(g_rb.head + pl.en, g_rb.cap)]
    /\ pl' = [pl EXCEPT !.pcR = "e_size"]
    /\ UNCHANGED g_drop_bytes /\ Ghosts

\* rb->size -= n; return n; need -= got; g_drop_bytes += got; while (need)
S_EvSize ==
    /\ pl.pcM = "race" /\ pl.pcR = "e_size"
    /\ g_rb' = [g_rb EXCEPT !.size = SubT(g_rb.size, pl.en)]
    /\ g_drop_bytes' = g_drop_bytes + pl.en
    /\ pl' = [pl EXCEPT !.pcR = IF pl.need = pl.en THEN "w_free" ELSE "e_used",
                        !.need = pl.need - pl.en, !.en = 0, !.tmp = <<>>,
                        !.evicted = pl.evicted \cup {pl.tmp[i] : i \in 1 .. pl.en}]
    /\ Ghosts

\* rb_push(rb, src, n): free_bytes = rb_free_space(rb); 0 returns 0, and then
\* rb_push_overwrite returns and g_total_rx += r; n = min(n, free_bytes)
S_PushFree ==
    /\ pl.pcM = "race" /\ pl.pcR = "w_free"
    /\ LET free_bytes == SubT(g_rb.cap, g_rb.size) IN
       pl' = IF free_bytes = 0
             THEN [pl EXCEPT !.pcR = "r_read", !.total_rx = pl.total_rx + pl.rn,
                             !.rbuf = <<>>, !.rn = 0]
             ELSE [pl EXCEPT !.pcR = "w_copy", !.wn = Min(pl.rn, free_bytes)]
    /\ UNCHANGED <<g_rb, g_drop_bytes>> /\ Ghosts

S_PushCopy ==
    /\ pl.pcM = "race" /\ pl.pcR = "w_copy"
    /\ g_rb' = [g_rb EXCEPT !.data = CopyIn(g_rb, pl.rbuf, pl.wn)]
    /\ pl' = [pl EXCEPT !.pcR = "w_tail"]
    /\ UNCHANGED g_drop_bytes /\ Ghosts

\* rb->tail = rb_mod(rb->tail + n, rb->cap)
S_PushTail ==
    /\ pl.pcM = "race" /\ pl.pcR = "w_tail"
    /\ g_rb' = [g_rb EXCEPT !.tail = rb_mod(g_rb.tail + pl.wn, g_rb.cap)]
    /\ pl' = [pl EXCEPT !.pcR = "w_size"]
    /\ UNCHANGED g_drop_bytes /\ Ghosts

\* rb->size += n; return n; rb_push_overwrite returns; g_total_rx += r
S_PushSize ==
    /\ pl.pcM = "race" /\ pl.pcR = "w_size"
    /\ g_rb' = [g_rb EXCEPT !.size = AddT(g_rb.size, pl.wn)]
    /\ pl' = [pl EXCEPT !.pcR = "r_read", !.total_rx = pl.total_rx + pl.rn,
                        !.rbuf = <<>>, !.rn = 0, !.wn = 0]
    /\ UNCHANGED g_drop_bytes /\ Ghosts

\* avail = rb_size(&g_rb) with avail > 0; want = min(avail, sizeof(buf))
S_PrSize ==
    /\ pl.pcM = "race" /\ pl.pcP = "p_size"
    /\ Len(pl.rendered) < MaxOut
    /\ g_rb.size > 0
    /\ pl' = [pl EXCEPT !.pcP = "q_used", !.want = Min(g_rb.size, PrinterBuf)]
    /\ UNCHANGED <<g_rb, g_drop_bytes>> /\ Ghosts

\* rb_pop(&g_rb, buf, want): used = rb->size; 0 returns 0; n = min(want, used)
S_PrUsed ==
    /\ pl.pcM = "race" /\ pl.pcP = "q_used"
    /\ LET used == g_rb.size IN
       pl' = IF used = 0 THEN [pl EXCEPT !.pcP = "p_size", !.want = 0]
             ELSE [pl EXCEPT !.pcP = "q_copy", !.pn = Min(pl.want, used), !.want = 0]
    /\ UNCHANGED <<g_rb, g_drop_bytes>> /\ Ghosts

S_PrCopy ==
    /\ pl.pcM = "race" /\ pl.pcP = "q_copy"
    /\ pl' = [pl EXCEPT !.pcP = "q_head", !.pbuf = CopyOut(g_rb, pl.pn)]
    /\ UNCHANGED <<g_rb, g_drop_bytes>> /\ Ghosts

S_PrHead ==
    /\ pl.pcM = "race" /\ pl.pcP = "q_head"
    /\ g_rb' = [g_rb EXCEPT !.head = rb_mod(g_rb.head + pl.pn, g_rb.cap)]
    /\ pl' = [pl EXCEPT !.pcP = "q_size"]
    /\ UNCHANGED g_drop_bytes /\ Ghosts

\* rb->size -= n; return n; the got bytes of buf are printed
S_PrSizeDec ==
    /\ pl.pcM = "race" /\ pl.pcP = "q_size"
    /\ g_rb' = [g_rb EXCEPT !.size = SubT(g_rb.size, pl.pn)]
    /\ pl' = [pl EXCEPT !.pcP = "p_size", !.pn = 0, !.pbuf = <<>>,
                        !.rendered = pl.rendered \o pl.pbuf]
    /\ UNCHANGED g_drop_bytes /\ Ghosts

NextRace ==
    \/ S_Read \/ S_OwFree \/ S_EvUsed \/ S_EvCopy \/ S_EvHead \/ S_EvSize
    \/ S_PushFree \/ S_PushCopy \/ S_PushTail \/ S_PushSize
    \/ S_PrSize \/ S_PrUsed \/ S_PrCopy \/ S_PrHead \/ S_PrSizeDec

SpecRace == InitRace /\ [][NextRace]_vars

\* no thread is inside a call on g_rb
Quiescent == pl.pcR = "r_read" /\ pl.pcP = "p_size"

(* --------------------- serial_port.c: the port ------------------------- *)
\* The descriptors / handles the system can hand out: MaxFd of them, from 3
\* on (0, 1 and 2 are the terminal's own stdin, stdout and stderr).
MaxFd == 3
FdPool == 3 .. (2 + MaxFd)

\* memset(sp, 0, sizeof(*sp)): fd 0, or a NULL handle
SpZero == [fd |-> 0, rtscts |-> FALSE]

\* POSIX: sp->fd > 0; Windows: sp->h != NULL
sp_is_open(build, sp) == IF build = "posix" THEN sp.fd > 0 ELSE sp.fd # 0

\* what can happen inside sp_open: open / CreateFileA fails; tcgetattr /
\* GetCommState fails; map_baud returns 0 (POSIX only); tcsetattr /
\* SetCommState fails; or all succeed
OpenOutcomes(build) ==
    {"no_device", "no_attr", "no_set", "ok"} \cup
    (IF build = "posix" THEN {"bad_baud"} ELSE {})

\* sp_open that forgets the descriptor when the attributes cannot be set
sp_open_LeaksOnSetFail(build, sp, fds, how, fd) ==
    IF how = "no_device" THEN [sp |-> SpZero, fds |-> fds, ret |-> FALSE]
    ELSE LET opened == fds \cup {fd} IN
         IF how \in {"no_attr", "bad_baud"}
         THEN [sp |-> SpZero, fds |-> opened \ {fd}, ret |-> FALSE]
         ELSE IF how = "no_set"
         THEN [sp |-> SpZero, fds |-> opened, ret |-> FALSE]
         ELSE [sp |-> [fd |-> fd, rtscts |-> FALSE], fds |-> opened, ret |-> TRUE]

\* sp_open(sp, name, baud): fds are the descriptors open before the call, fd
\* the one open / CreateFileA returns when it succeeds
sp_open(build, sp, fds, how, fd) ==
    IF how = "no_device" THEN [sp |-> SpZero, fds |-> fds, ret |-> FALSE]
    ELSE LET opened == fds \cup {fd} IN
         IF how \in {"no_attr", "bad_baud", "no_set"}
         THEN [sp |-> SpZero, fds |-> opened \ {fd}, ret |-> FALSE]
         ELSE [sp |-> [fd |-> fd, rtscts |-> FALSE], fds |-> opened, ret |-> TRUE]

\* sp_close: POSIX closes fd > 0 and stores -1; Windows closes a non-NULL
\* handle and stores NULL
sp_close(build, sp, fds) ==
    IF build = "posix"
    THEN IF sp.fd > 0 THEN [sp |-> [sp EXCEPT !.fd = -1], fds |-> fds \ {sp.fd}]
         ELSE [sp |-> sp, fds |-> fds]
    ELSE IF sp.fd # 0 THEN [sp |-> [sp EXCEPT !.fd = 0], fds |-> fds \ {sp.fd}]
         ELSE [sp |-> sp, fds |-> fds]

\* sp_set_rtscts on an open port: ok says whether the attributes were set
sp_set_rtscts(sp, enable, ok) ==
    [sp |-> IF ok THEN [sp EXCEPT !.rtscts = enable] ELSE sp, ret |-> ok]

PortCall(op, how, ret, sp0, fds0) ==
    [op |-> op, how |-> how, ret |-> ret, sp0 |-> sp0, fds0 |-> fds0]

\* static SerialPort g_sp: all zero, nothing open. pl.call is the call of
\* the last command: what it was, what it returned, and g_sp and the open
\* descriptors at its entry.
InitPort ==
    /\ \E b \in {"posix", "win32"} :
          pl = [pcM |-> "port", build |-> b, sp |-> SpZero, fds |-> {},
                call |-> PortCall("none", "", FALSE, SpZero, {})]
    /\ g_rb = Zeroed
    /\ g_drop_bytes = 0
    /\ last = NoCall
    /\ fifo = FifoOff
    /\ acct = AcctOff
    /\ absq = AbsOff

\* open <port> <baud>: if (sp_is_open(&g_sp)) sp_close(&g_sp); sp_open(...)
PortOpen ==
    /\ pl.pcM = "port"
    /\ LET c == IF sp_is_open(pl.build, pl.sp) THEN sp_close(pl.build, pl.sp, pl.fds)
                ELSE [sp |-> pl.sp, fds |-> pl.fds]
       IN  \E how \in OpenOutcomes(pl.build), fd \in FdPool \ c.fds :
              LET res == sp_open(pl.build, c.sp, c.fds, how, fd) IN
              pl' = [pl EXCEPT !.sp = res.sp, !.fds = res.fds,
                               !.call = PortCall("sp_open", how, res.ret, c.sp, c.fds)]
    /\ UNCHANGED <<g_rb, g_drop_bytes>> /\ Ghosts

\* close: if (sp_is_open(&g_sp)) sp_close(&g_sp)
PortClose ==
    /\ pl.pcM = "port"
    /\ LET c == IF sp_is_open(pl.build, pl.sp) THEN sp_close(pl.build, pl.sp, pl.fds)
                ELSE [sp |-> pl.sp, fds |-> pl.fds]
       IN  pl' = [pl EXCEPT !.sp = c.sp, !.fds = c.fds,
                            !.call = PortCall("sp_close", "", sp_is_open(pl.build, pl.sp),
                                              pl.sp, pl.fds)]
    /\ UNCHANGED <<g_rb, g_drop_bytes>> /\ Ghosts

\* rtscts on | off, on an open port
PortRtscts ==
    /\ pl.pcM = "port"
    /\ sp_is_open(pl.build, pl.sp)
    /\ \E en \in BOOLEAN, ok \in BOOLEAN :
          LET res == sp_set_rtscts(pl.sp, en, ok) IN
          pl' = [pl EXCEPT !.sp = res.sp,
                           !.call = PortCall("sp_set_rtscts", "", res.ret, pl.sp, pl.fds)]
    /\ UNCHANGED <<g_rb, g_drop_bytes>> /\ Ghosts

\* txs / txx on an open port: sp_write fails (-1), writes nothing (0), or
\* writes some bytes; g_sp and the descriptors stay as they are
PortWrite ==
    /\ pl.pcM = "port"
    /\ sp_is_open(pl.build, pl.sp)
    /\ \E how \in {"error", "nothing", "some"} :
          pl' = [pl EXCEPT !.call = PortCall("sp_write", how, how = "some", pl.sp, pl.fds)]
    /\ UNCHANGED <<g_rb, g_drop_bytes>> /\ Ghosts

NextPort == PortOpen \/ PortClose \/ PortRtscts \/ PortWrite

SpecPort == InitPort /\ [][NextPort]_vars

(* ------- the fixed-capacity int ring at the end of serial_port.c ------- *)
\* BUF_CAP (8 in the source), scaled down; elements are 1 .. MaxElem, so that
\* they differ from the 0 rb_init stores. The functions are called rb_init,
\* rb_push, rb_pop and rb_peek in the source; here they carry the prefix ir_.
BUF_CAP == 3
MaxElem == 2
BUF_OK == 0
BUF_FULL == 1
BUF_EMPTY == 2

step(i) == (i + 1) % BUF_CAP

ir_init == [data |-> [i \in 1 .. BUF_CAP |-> 0], head |-> 0, tail |-> 0, count |-> 0]

rb_is_empty(rb) == rb.count = 0
rb_is_full(rb) == rb.count = BUF_CAP

\* a push that stores even when the ring is full
ir_push_OverwritesWhenFull(rb, v) ==
    [rb  |-> [rb EXCEPT !.data[rb.head + 1] = v, !.head = step(rb.head),
                        !.count = IF rb_is_full(rb) THEN rb.count ELSE rb.count + 1],
     ret |-> IF rb_is_full(rb) THEN BUF_FULL ELSE BUF_OK]

ir_push(rb, v) ==
    IF rb_is_full(rb) THEN [rb |-> rb, ret |-> BUF_FULL]
    ELSE [rb  |-> [rb EXCEPT !.data[rb.head + 1] = v, !.head = step(rb.head),
                             !.count = rb.count + 1],
          ret |-> BUF_OK]

\* out is *out after the call; v0 is what the caller's variable held before
ir_pop(rb, v0) ==
    IF rb_is_empty(rb) THEN [rb |-> rb, ret |-> BUF_EMPTY, out |-> v0]
    ELSE [rb  |-> [rb EXCEPT !.tail = step(rb.tail), !.count = rb.count - 1],
          ret |-> BUF_OK, out |-> rb.data[rb.tail + 1]]

ir_peek(rb, v0) ==
    IF rb_is_empty(rb) THEN [ret |-> BUF_EMPTY, out |-> v0]
    ELSE [ret |-> BUF_OK, out |-> rb.data[rb.tail + 1]]

IrCall(op, v, ret, out, rb0, q0) ==
    [op |-> op, v |-> v, ret |-> ret, out |-> out, rb0 |-> rb0, q0 |-> q0]
IrNoCall == IrCall("none", 0, BUF_OK, 0, ir_init, <<>>)

\* pl.ir is the RingBuf of main, pl.q the elements pushed and not yet
\* popped, oldest first, and pl.call the command that has just run
InitIntRing ==
    /\ pl = [pcM |-> "intring", ir |-> ir_init, q |-> <<>>,
             call |-> IrCall("init", 0, BUF_OK, 0, ir_init, <<>>)]
    /\ g_rb = Zeroed
    /\ g_drop_bytes = 0
    /\ last = NoCall
    /\ fifo = FifoOff
    /\ acct = AcctOff
    /\ absq = AbsOff

\* a <num>
IrPush ==
    /\ pl.pcM = "intring" /\ pl.call.op = "none"
    /\ \E v \in 1 .. MaxElem :
          LET res == ir_push(pl.ir, v) IN
          pl' = [pl EXCEPT !.ir = res.rb,
                           !.q = IF res.ret = BUF_OK THEN Append(pl.q, v) ELSE pl.q,
                           !.call = IrCall("push", v, res.ret, 0, pl.ir, pl.q)]
    /\ UNCHANGED <<g_rb, g_drop_bytes>> /\ Ghosts

\* g
IrPop ==
    /\ pl.pcM = "intring" /\ pl.call.op = "none"
    /\ LET res == ir_pop(pl.ir, 0) IN
       pl' = [pl EXCEPT !.ir = res.rb,
                        !.q = IF res.ret = BUF_OK THEN Tail(pl.q) ELSE pl.q,
                        !.call = IrCall("pop", 0, res.ret, res.out, pl.ir, pl.q)]
    /\ UNCHANGED <<g_rb, g_drop_bytes>> /\ Ghosts

\* p
IrPeek ==
    /\ pl.pcM = "intring" /\ pl.call.op = "none"
    /\ LET res == ir_peek(pl.ir, 0) IN
       pl' = [pl EXCEPT !.call = IrCall("peek", 0, res.ret, res.out, pl.ir, pl.q)]
    /\ UNCHANGED <<g_rb, g_drop_bytes>> /\ Ghosts

\* the next prompt
IrPrompt ==
    /\ pl.pcM = "intring" /\ pl.call.op # "none"
    /\ pl' = [pl EXCEPT !.call = IrNoCall]
    /\ UNCHANGED <<g_rb, g_drop_bytes>> /\ Ghosts

NextIntRing == IrPush \/ IrPop \/ IrPeek \/ IrPrompt

SpecIntRing == InitIntRing /\ [][NextIntRing]_vars

(* ------------- the log mirror (serial_port/main.c, g_logf) ------------- *)
\* g_logf is a plain FILE * that reader_thread reads and main writes with no
\* lock. FILE objects are numbered 1 .. MaxLogs in the order fopen returns
\* them, 0 is NULL; pl.openf are the ones not yet given to fclose.
MaxLogs == 2
\* chunks the reader receives while the log is being switched
MaxLogRx == 2

InitLog ==
    /\ g_rb = rb_init(Zeroed, RB_CAP, Zeros(RB_CAP)).rb
    /\ g_drop_bytes = 0
    /\ pl = [pcM |-> "lg_cmd", pcR |-> "l_read", logf |-> 0, openf |-> {}, made |-> 0,
             total_rx |-> 0, rbuf |-> <<>>, lf |-> 0, wf |-> 0, written |-> <<>>]
    /\ last = NoCall
    /\ fifo = FifoOff
    /\ acct = AcctOff
    /\ absq = AbsOff

\* sp_read delivers a chunk; rb_push_overwrite(&g_rb, buf, r); g_total_rx += r
L_Read ==
    /\ pl.pcM \in {"lg_cmd", "lg_open", "lg_null"} /\ pl.pcR = "l_read"
    /\ \E c \in Chunks(pl.total_rx) :
          /\ pl.total_rx + Len(c) <= MaxLogRx
          /\ LET res == rb_push_overwrite(g_rb, c, Len(c), g_drop_bytes) IN
                /\ g_rb' = res.rb
                /\ g_drop_bytes' = res.drop
          /\ pl' = [pl EXCEPT !.pcR = "l_test", !.rbuf = c,
                              !.total_rx = pl.total_rx + Len(c)]
    /\ Ghosts

\* if (g_logf): the pointer is loaded and tested
L_Test ==
    /\ pl.pcM \in {"lg_cmd", "lg_open", "lg_null"} /\ pl.pcR = "l_test"
    /\ pl' = IF pl.logf # 0
             THEN [pl EXCEPT !.pcR = "l_write", !.lf = pl.logf]
             ELSE [pl EXCEPT !.pcR = "l_read", !.rbuf = <<>>]
    /\ UNCHANGED <<g_rb, g_drop_bytes>> /\ Ghosts

\* fwrite(buf, 1, r, g_logf): the build passes the pointer it tested or
\* loads g_logf again; wf is the FILE handed to fwrite, and the bytes reach
\* the file if it is open
L_Write ==
    /\ pl.pcM \in {"lg_cmd", "lg_open", "lg_null"} /\ pl.pcR = "l_write"
    /\ \E f \in {pl.lf, pl.logf} :
          pl' = [pl EXCEPT !.pcR = "l_flush", !.wf = f, !.lf = f,
                          !.written = IF f \in pl.openf THEN Append(pl.written, f)
                                      ELSE pl.written]
    /\ UNCHANGED <<g_rb, g_drop_bytes>> /\ Ghosts

\* fflush(g_logf), and the end of the loop body
L_Flush ==
    /\ pl.pcM \in {"lg_cmd", "lg_open", "lg_null"} /\ pl.pcR = "l_flush"
    /\ \E f \in {pl.lf, pl.logf} :
          pl' = [pl EXCEPT !.pcR = "l_read", !.wf = f, !.lf = 0, !.rbuf = <<>>]
    /\ UNCHANGED <<g_rb, g_drop_bytes>> /\ Ghosts

\* log on [file]: if (g_logf) fclose(g_logf);
LogOn_Close ==
    /\ pl.pcM = "lg_cmd"
    /\ pl.made < MaxLogs
    /\ pl' = [pl EXCEPT !.pcM = "lg_open", !.openf = pl.openf \ {pl.logf}]
    /\ UNCHANGED <<g_rb, g_drop_bytes>> /\ Ghosts

\* g_logf = fopen(path, "ab"): a new FILE, or NULL
LogOn_Open ==
    /\ pl.pcM = "lg_open"
    /\ \/ pl' = [pl EXCEPT !.pcM = "lg_cmd", !.logf = pl.made + 1, !.made = pl.made + 1,
                            !.openf = pl.openf \cup {pl.made + 1}]
       \/ pl' = [pl EXCEPT !.pcM = "lg_cmd", !.logf = 0]
    /\ UNCHANGED <<g_rb, g_drop_bytes>> /\ Ghosts

\* log off: if (g_logf) { fclose(g_logf);
LogOff_Close ==
    /\ pl.pcM = "lg_cmd"
    /\ pl.logf # 0
    /\ pl' = [pl EXCEPT !.pcM = "lg_null", !.openf = pl.openf \ {pl.logf}]
    /\ UNCHANGED <<g_rb, g_drop_bytes>> /\ Ghosts

\* g_logf = NULL; }
LogOff_Null ==
    /\ pl.pcM = "lg_null"
    /\ pl' = [pl EXCEPT !.pcM = "lg_cmd", !.logf = 0]
    /\ UNCHANGED <<g_rb, g_drop_bytes>> /\ Ghosts

NextLog ==
    \/ L_Read \/ L_Test \/ L_Write \/ L_Flush
    \/ LogOn_Close \/ LogOn_Open \/ LogOff_Close \/ LogOff_Null

SpecLog == InitLog /\ [][NextLog]_vars

(* --------------------------- helper notions ---------------------------- *)
Valid(r) == r.data # NULL

\* the last k elements of s
LastBytes(k, s) == SubSeq(s, Len(s) - k + 1, Len(s))

(* ------------------------------ claims --------------------------------- *)

\* C1: starting from an empty buffer, after any sequence of rb_push calls
\* whose requested lengths add up to at most cap, rb_size equals the sum of
\* the values the pushes returned, and one rb_pop of rb_size bytes returns
\* the pushed bytes, concatenated in the order they were pushed.
C1_FifoOfPushes ==
    fifo.ok =>
        LET res == rb_pop(g_rb, rb_size(g_rb)) IN
        /\ rb_size(g_rb) = fifo.sum
        /\ res.ret = rb_size(g_rb)
        /\ res.out = fifo.req

\* two pushes that fill a buffer of capacity >= 3 whose head is not at 0, so
\* that the stored bytes cross the end of the storage
C1_Witness ==
    /\ fifo.ok
    /\ last.op = "push"
    /\ g_rb.cap >= 3
    /\ g_rb.head > 0
    /\ Len(fifo.req) = g_rb.cap
    /\ 0 < last.n /\ last.n < g_rb.cap

\* C2: in every state of a valid buffer, 0 <= size <= cap, 0 <= head < cap
\* and 0 <= tail < cap.
C2_FieldRanges ==
    Valid(g_rb) =>
        /\ 0 <= g_rb.size /\ g_rb.size <= g_rb.cap
        /\ 0 <= g_rb.head /\ g_rb.head < g_rb.cap
        /\ 0 <= g_rb.tail /\ g_rb.tail < g_rb.cap

\* a full buffer whose cursors sit on the last slot, reached by a push that
\* wrapped tail around the end of the storage
C2_Witness ==
    /\ Valid(g_rb)
    /\ last.op = "push"
    /\ g_rb.cap >= 2
    /\ g_rb.size = g_rb.cap
    /\ g_rb.head = g_rb.cap - 1
    /\ g_rb.tail = g_rb.cap - 1
    /\ last.rb0.tail + last.ret > g_rb.cap

\* C3: rb_push(src, n) on a valid buffer returns k = min(n, cap - size),
\* appends exactly the first k bytes of src after the logical content, adds k
\* to size and advances tail by k modulo cap; on a full buffer it returns 0
\* and changes nothing.  After a short write the buffer is still valid.
C3_PushContract ==
    (last.op = "push" /\ Valid(last.rb0)) =>
        LET r0 == last.rb0
            k  == Min(last.n, r0.cap - r0.size)
        IN  /\ last.ret = k
            /\ Content(g_rb) = Content(r0) \o SubSeq(last.src, 1, k)
            /\ g_rb.size = r0.size + k
            /\ g_rb.tail = (r0.tail + k) % r0.cap
            /\ g_rb.head = r0.head
            /\ g_rb.cap = r0.cap
            /\ Valid(g_rb)
            /\ (r0.size = r0.cap => last.ret = 0 /\ g_rb = r0)

\* a short write of at least two bytes that crosses the end of the storage
C3_Witness ==
    /\ last.op = "push"
    /\ Valid(last.rb0)
    /\ last.ret < last.n
    /\ last.ret >= 2
    /\ last.rb0.size > 0
    /\ last.rb0.tail + last.ret > last.rb0.cap

\* C4: rb_pop(dst, n) on a valid buffer returns k = min(n, size), delivers
\* the k oldest logical bytes in order, advances head by k modulo cap and
\* takes k off size; on an empty buffer it returns 0 and leaves size, head
\* and tail unchanged.
C4_PopContract ==
    (last.op = "pop" /\ Valid(last.rb0)) =>
        LET r0 == last.rb0
            k  == Min(last.n, r0.size)
        IN  /\ last.ret = k
            /\ last.out = SubSeq(Content(r0), 1, k)
            /\ g_rb.head = (r0.head + k) % r0.cap
            /\ g_rb.size = r0.size - k
            /\ Content(g_rb) = SubSeq(Content(r0), k + 1, r0.size)
            /\ (r0.size = 0 =>
                   /\ last.ret = 0
                   /\ g_rb.size = r0.size /\ g_rb.head = r0.head /\ g_rb.tail = r0.tail)

\* a pop of at least two bytes, fewer than asked for, that crosses the end of
\* the storage
C4_Witness ==
    /\ last.op = "pop"
    /\ Valid(last.rb0)
    /\ last.ret >= 2
    /\ last.ret < last.n
    /\ last.rb0.head + last.ret > last.rb0.cap

\* C5: rb_peek(dst, n, offset) returns 0 bytes when offset >= size; otherwise
\* it returns exactly min(n, size - offset) bytes, the logical bytes at
\* offsets offset .. offset + k - 1 from head, also across the physical end
\* of the storage.
C5_PeekContract ==
    last.op = "peek" =>
        LET r0 == last.rb0 IN
        IF last.off >= r0.size
        THEN last.ret = 0 /\ last.out = <<>>
        ELSE LET k == Min(last.n, r0.size - last.off)
             IN  /\ last.ret = k
                 /\ last.out = SubSeq(Content(r0), last.off + 1, last.off + k)

\* a peek at a non-zero offset that returns at least two bytes lying across
\* the end of the storage
C5_Witness ==
    /\ last.op = "peek"
    /\ last.off > 0
    /\ last.ret >= 2
    /\ rb_mod(last.rb0.head + last.off, last.rb0.cap) + last.ret > last.rb0.cap

\* C6: rb_peek with any n and any offset leaves size, head, tail and the
\* storage unchanged, so every later rb_pop gives the result it would have
\* given without the peek.
C6_PeekFrame ==
    last.op = "peek" =>
        /\ g_rb = last.rb0
        /\ \A n \in 0 .. MaxLen : rb_pop(g_rb, n) = rb_pop(last.rb0, n)

\* a peek that copied bytes out of a buffer holding more than it returned
C6_Witness ==
    /\ last.op = "peek"
    /\ last.ret > 0
    /\ last.ret < g_rb.size

\* C7: for every input of length n >= cap given to rb_push_overwrite on a
\* valid buffer in any state: afterwards size = cap, the logical content is
\* exactly the last cap bytes of the input, and g_drop_bytes has grown by
\* exactly n - cap.
C7_OverwriteLongInput ==
    (last.op = "push_overwrite" /\ Valid(last.rb0) /\ last.n >= last.rb0.cap) =>
        /\ g_rb.size = g_rb.cap
        /\ g_rb.cap = last.rb0.cap
        /\ Content(g_rb) = LastBytes(g_rb.cap, last.src)
        /\ g_drop_bytes = last.drop0 + (last.n - last.rb0.cap)

\* an input longer than cap written over a non-empty buffer whose head is
\* not at 0
C7_Witness ==
    /\ last.op = "push_overwrite"
    /\ Valid(last.rb0)
    /\ last.rb0.cap >= 2
    /\ last.n > last.rb0.cap
    /\ last.rb0.size > 0
    /\ last.rb0.head > 0

\* C8: for every input of length n with free_space < n < cap given to
\* rb_push_overwrite: only the n - free_space oldest bytes are discarded,
\* g_drop_bytes grows by exactly that number, and all n input bytes are
\* stored after the bytes that survive.
C8_OverwriteEvicts ==
    (/\ last.op = "push_overwrite"
     /\ Valid(last.rb0)
     /\ rb_free_space(last.rb0) < last.n
     /\ last.n < last.rb0.cap) =>
        LET r0 == last.rb0
            d  == last.n - rb_free_space(r0)
        IN  /\ Content(g_rb) = SubSeq(Content(r0), d + 1, r0.size) \o last.src
            /\ g_drop_bytes = last.drop0 + d
            /\ g_rb.size = r0.size - d + last.n

\* an eviction of at least two bytes (more than one round of the loop) that
\* leaves at least one old byte in the buffer
C8_Witness ==
    /\ last.op = "push_overwrite"
    /\ Valid(last.rb0)
    /\ last.n < last.rb0.cap
    /\ last.n - rb_free_space(last.rb0) >= 2
    /\ last.n - rb_free_space(last.rb0) > TmpSize
    /\ last.rb0.size > last.n - rb_free_space(last.rb0)

\* C9: after rb_push_overwrite(input) on a valid buffer the logical content
\* is the last min(cap, size_before + len(input)) bytes of the content before
\* followed by the input.
C9_OverwriteKeepsNewest ==
    (last.op = "push_overwrite" /\ Valid(last.rb0)) =>
        LET r0 == last.rb0
            k  == Min(r0.cap, r0.size + last.n)
        IN  Content(g_rb) = LastBytes(k, Content(r0) \o last.src)

\* an input that pushes out some, but not all, of the old bytes
C9_Witness ==
    /\ last.op = "push_overwrite"
    /\ Valid(last.rb0)
    /\ last.n > 0
    /\ last.rb0.size + last.n > last.rb0.cap
    /\ last.n < last.rb0.cap
    /\ last.rb0.head > 0
    /\ g_drop_bytes > last.drop0

\* C10: when len(input) <= free_space and len(input) < cap,
\* rb_push_overwrite has exactly the effect of rb_push: no stored byte is
\* removed, head is unchanged and g_drop_bytes is unchanged.
C10_OverwriteFits ==
    (/\ last.op = "push_overwrite"
     /\ last.n <= rb_free_space(last.rb0)
     /\ last.n < last.rb0.cap) =>
        LET r0 == last.rb0 IN
        /\ g_rb = rb_push(r0, last.src, last.n).rb
        /\ SubSeq(Content(g_rb), 1, r0.size) = Content(r0)
        /\ g_rb.size = r0.size + last.n
        /\ g_rb.head = r0.head
        /\ g_drop_bytes = last.drop0

\* a non-empty input that fits into the free space of a non-empty buffer
C10_Witness ==
    /\ last.op = "push_overwrite"
    /\ last.n > 0
    /\ last.rb0.size > 0
    /\ last.n <= rb_free_space(last.rb0)
    /\ last.n < last.rb0.cap

\* C11: for a non-empty pattern of length m <= size, rb_search returns true
\* exactly when the pattern is a contiguous slice of the logical content, and
\* the index it gives is the lowest logical offset of such a slice, also when
\* the slice crosses the physical end of the storage.
C11_SearchLowestMatch ==
    (/\ last.op = "search"
     /\ Valid(last.rb0)
     /\ last.n >= 1
     /\ last.n <= last.rb0.size) =>
        LET r0  == last.rb0
            c   == Content(r0)
            Occ == { o \in 0 .. r0.size - last.n : SubSeq(c, o + 1, o + last.n) = last.src }
        IN  /\ (last.ret = 1) <=> (Occ # {})
            /\ last.ret = 1 => (last.off \in Occ /\ \A o \in Occ : last.off <= o)

\* a two-byte pattern found at the last possible offset, not at offset 0,
\* where it lies across the physical end of the storage
C11_Witness ==
    /\ last.op = "search"
    /\ Valid(last.rb0)
    /\ last.n = 2
    /\ last.ret = 1
    /\ last.off > 0
    /\ last.off = last.rb0.size - last.n
    /\ rb_mod(last.rb0.head + last.off, last.rb0.cap) = last.rb0.cap - 1

\* C12: on a valid buffer rb_search with an empty pattern returns true with
\* index 0 in every buffer state, the empty one included, and rb_search with
\* a pattern longer than size returns false.
C12_SearchEdgeCases ==
    (last.op = "search" /\ Valid(last.rb0)) =>
        /\ last.n = 0 => (last.ret = 1 /\ last.off = 0)
        /\ last.n > last.rb0.size => last.ret = 0

\* the empty pattern searched in an empty buffer
C12_Witness ==
    /\ last.op = "search"
    /\ Valid(last.rb0)
    /\ last.n = 0
    /\ last.rb0.size = 0
    /\ last.rb0.head > 0

\* C13: rb_clear on a valid buffer in any state sets size, head and tail to
\* 0 and leaves cap and the storage bytes as they were, so that rb_size is 0
\* and rb_free_space equals rb_capacity; a second rb_clear changes nothing.
C13_ClearContract ==
    (last.op = "clear" /\ Valid(last.rb0)) =>
        /\ g_rb = [last.rb0 EXCEPT !.head = 0, !.tail = 0, !.size = 0]
        /\ rb_size(g_rb) = 0
        /\ rb_free_space(g_rb) = rb_capacity(g_rb)
        /\ rb_clear(g_rb) = g_rb

\* rb_clear on a non-empty buffer whose head and tail are not at 0
C13_Witness ==
    /\ last.op = "clear"
    /\ Valid(last.rb0)
    /\ last.rb0.size > 0
    /\ last.rb0.head > 0
    /\ last.rb0.tail > 0

\* C14: between rb_init and rb_free no push, pop, peek, search, clear or
\* push_overwrite changes rb_capacity; rb_free_space is always rb_capacity
\* less rb_size; and the three accessors change no state.
C14_CapacityFixed ==
    /\ (Valid(last.rb0) /\ last.op \in {"push", "pop", "peek", "search", "clear",
                                         "push_overwrite", "capacity", "size", "free_space"}) =>
           /\ Valid(g_rb)
           /\ rb_capacity(g_rb) = rb_capacity(last.rb0)
    /\ last.op \in {"capacity", "size", "free_space"} =>
           /\ g_rb = last.rb0
           /\ g_drop_bytes = last.drop0
    /\ last.op = "capacity" => last.ret = last.rb0.cap
    /\ last.op = "size" => last.ret = last.rb0.size
    /\ last.op = "free_space" => last.ret = rb_capacity(last.rb0) - rb_size(last.rb0)
    /\ Valid(g_rb) => (rb_free_space(g_rb) >= 0 /\ rb_free_space(g_rb) <= rb_capacity(g_rb))

\* the free command on a buffer that is neither empty nor full
C14_Witness ==
    /\ last.op = "free_space"
    /\ Valid(last.rb0)
    /\ last.ret > 0
    /\ last.ret < last.rb0.cap

C18_NoUncountedLoss ==
    acct.ok => acct.bal = rb_size(g_rb)
\* C17: accesses to g_rb are mutually exclusive: never are two of the reader's
\* rb_push_overwrite, the printer's rb_size / rb_pop and main's rb_peek /
\* rb_size executing on g_rb at the same time.
C17_MutualExclusion ==
    /\ ~(ReaderInRb /\ PrinterInRb)
    /\ ~(ReaderInRb /\ ControllerInRb)
    /\ ~(PrinterInRb /\ ControllerInRb)

\* C19: rb_free(&g_rb) runs only after both threads have left their loops,
\* it runs at most once, and no thread works on g_rb after it (a thread that
\* has left its loop never enters it again).
C19_FreeAfterThreads ==
    /\ pl.frees <= 1
    /\ pl.frees > 0 => pl.pcR = "done" /\ pl.pcP = "done"

C21_VisibleAfterReturn ==
    \A i \in DOMAIN pl.pbuf : pl.pbuf[i] <= pl.total_rx

\* C29: with the statements of the two threads interleaved, whenever no
\* thread is inside a call on g_rb, 0 <= size <= cap and
\* tail = (head + size) mod cap.
C29_RaceKeepsInvariant ==
    Quiescent =>
        /\ g_rb.size <= g_rb.cap
        /\ g_rb.tail = rb_mod(g_rb.head + g_rb.size, g_rb.cap)

\* C30: the bytes the printer has rendered are bytes the reader received, in
\* the order received and each at most once, and none of them was also
\* counted as dropped.
C30_RenderedIsSubsequence ==
    /\ \A i \in DOMAIN pl.rendered : pl.rendered[i] \in 1 .. (pl.total_rx + pl.rn)
    /\ \A i, j \in DOMAIN pl.rendered : i < j => pl.rendered[i] < pl.rendered[j]
    /\ \A i \in DOMAIN pl.rendered : pl.rendered[i] \notin pl.evicted

\* C22: in an iteration of the reader's loop, a chunk of r > 0 bytes is
\* handed to rb_push_overwrite as it was read (buf and r stay as they are
\* until the call has returned) and g_total_rx then grows by exactly r; a
\* timeout, a read error or a closed port changes neither g_rb nor
\* g_total_rx nor g_drop_bytes and leads back to the loop test, never out of
\* the thread.
C22_IngestIteration ==
    [][ /\ (pl.pcR = "r_read" /\ pl.pcR' = "ow_free") =>
              /\ pl.rn' = Len(pl.rbuf') /\ pl.rn' > 0
              /\ pl.total_rx' = pl.total_rx
        /\ (ReaderInRb /\ pl.pcR' # pl.pcR) =>
              /\ pl.rbuf' = pl.rbuf /\ pl.rn' = pl.rn
              /\ pl.total_rx' = pl.total_rx
        /\ (pl.pcR = "r_rx" /\ pl.pcR' # "r_rx") =>
              /\ pl.pcR' = "r_loop"
              /\ pl.total_rx' = pl.total_rx + pl.rn
              /\ UNCHANGED <<g_rb, g_drop_bytes>>
        /\ (pl.pcR \in {"r_open", "r_read"} /\ pl.pcR' \notin {pl.pcR, "ow_free"}) =>
              /\ pl.pcR' \in {"r_read", "r_loop"}
              /\ pl.total_rx' = pl.total_rx
              /\ UNCHANGED <<g_rb, g_drop_bytes>>
      ]_vars

C22_Witness ==
    /\ pl.pcR = "r_read" /\ pl.total_rx >= 2
    /\ rb_size(g_rb) > 0 /\ g_drop_bytes > 0

\* C23 as stated: the printer's rb_pop never runs while g_live is off; while
\* it is on an iteration pops at most min(rb_size observed, sizeof(buf))
\* bytes and prints exactly the bytes rb_pop returned.
C23_NoPopWhileLiveOff ==
    [][ (pl.pcP = "p_pop" /\ pl.pcP' # "p_pop") =>
            /\ pl.live
            /\ rb_size(g_rb) - rb_size(g_rb') <= pl.pwant
            /\ pl.pwant <= PrinterBuf
      ]_vars

\* C23, amended: the printer reaches its rb_size / rb_pop only from a test of
\* g_live that read on, so that after live off it removes bytes in at most
\* the iteration already past that test; the iteration asks for
\* min(rb_size observed, sizeof(buf)) bytes, removes at most that many from
\* the front of the buffer, and prints exactly the bytes it removed; no
\* other step of the printer changes g_rb.
C23_PopOnlyAfterLiveSeenOn ==
    [][ /\ (pl.pcP' = "p_size" /\ pl.pcP # "p_size") => (pl.pcP = "p_live" /\ pl.live)
        /\ (pl.pcP' = "p_pop" /\ pl.pcP # "p_pop") =>
              /\ pl.pcP = "p_size"
              /\ pl.pwant' = Min(rb_size(g_rb), PrinterBuf) /\ pl.pwant' > 0
        /\ (pl.pcP = "p_pop" /\ pl.pcP' # "p_pop") =>
              LET got == rb_size(g_rb) - rb_size(g_rb') IN
              /\ pl.pcP' = "p_loop"
              /\ 0 <= got /\ got <= pl.pwant
              /\ got > 0 => /\ pl.out' = SubSeq(Content(g_rb), 1, got)
                            /\ Content(g_rb') = SubSeq(Content(g_rb), got + 1, rb_size(g_rb))
              /\ got = 0 => pl.out' = pl.out /\ g_rb' = g_rb
        /\ (pl.pcP' # pl.pcP /\ pl.pcP # "p_pop") => g_rb' = g_rb /\ pl.out' = pl.out
      ]_vars

C23_Witness ==
    /\ pl.pcP = "p_loop" /\ ~pl.live
    /\ Len(pl.out) = PrinterBuf /\ rb_size(g_rb) > 0

\* C24: g_total_rx, g_total_tx and g_drop_bytes never decrease, and the stat
\* command, which reads them, leaves g_rb and the counters as they are.
C24_CountersMonotone ==
    [][ /\ g_drop_bytes' >= g_drop_bytes
        /\ pl.total_rx' >= pl.total_rx
        /\ pl.total_tx' >= pl.total_tx
        /\ (pl.pcM = "m_stat" /\ pl.pcM' # "m_stat") =>
              /\ g_rb' = g_rb /\ g_drop_bytes' = g_drop_bytes
              /\ pl.total_rx' = pl.total_rx /\ pl.total_tx' = pl.total_tx
      ]_vars

C24_Witness ==
    /\ pl.pcM = "m_stat" /\ rb_size(g_rb) > 0
    /\ pl.total_rx > 0 /\ pl.total_tx > 0 /\ g_drop_bytes > 0

\* C25: no command of the controller's loop changes g_rb.
C25_ControllerFrame ==
    [][ Controller => g_rb' = g_rb ]_vars

C25_Witness ==
    /\ pl.pcM = "m_dump_peek" /\ pl.mn > 0 /\ rb_size(g_rb) >= pl.mn
    /\ pl.view = "hex" /\ pl.logf /\ pl.rtscts /\ pl.total_tx > 0 /\ ~pl.live

\* C26: when sp_open returns false no descriptor or handle it opened is
\* still open and sp_is_open is false; when it returns true sp_is_open is
\* true, the descriptor it stored is open, and flow control is recorded off.
C26_OpenContract ==
    pl.call.op = "sp_open" =>
        IF pl.call.ret
        THEN /\ sp_is_open(pl.build, pl.sp)
             /\ pl.sp.fd \in pl.fds /\ pl.fds = pl.call.fds0 \cup {pl.sp.fd}
             /\ ~pl.sp.rtscts
        ELSE /\ ~sp_is_open(pl.build, pl.sp)
             /\ pl.fds = pl.call.fds0

\* a failed sp_open, after a port that was open with RTS/CTS on
C26_Witness ==
    /\ pl.call.op = "sp_open" /\ ~pl.call.ret /\ pl.call.how = "no_set"
    /\ pl.call.sp0.rtscts /\ pl.fds = {}

\* C27: in the int ring, rb_push on a full ring returns BUF_FULL and changes
\* nothing; rb_pop and rb_peek on an empty ring return BUF_EMPTY and change
\* nothing; otherwise rb_pop returns the earliest element pushed and not yet
\* popped; and always 0 <= count <= BUF_CAP and
\* head = (tail + count) mod BUF_CAP.
C27_IntRingContract ==
    /\ 0 <= pl.ir.count /\ pl.ir.count <= BUF_CAP
    /\ pl.ir.head = (pl.ir.tail + pl.ir.count) % BUF_CAP
    /\ (pl.call.op = "push" /\ pl.call.rb0.count = BUF_CAP) =>
          pl.call.ret = BUF_FULL /\ pl.ir = pl.call.rb0
    /\ (pl.call.op \in {"pop", "peek"} /\ pl.call.rb0.count = 0) =>
          pl.call.ret = BUF_EMPTY /\ pl.ir = pl.call.rb0
    /\ (pl.call.op = "pop" /\ pl.call.rb0.count > 0) =>
          /\ pl.call.ret = BUF_OK
          /\ pl.call.q0 # <<>> /\ pl.call.out = Head(pl.call.q0)
          /\ pl.ir.count = pl.call.rb0.count - 1

\* a push refused by a full ring whose cursors have wrapped
C27_Witness ==
    /\ pl.call.op = "push" /\ pl.call.ret = BUF_FULL
    /\ pl.ir.tail # 0 /\ pl.q[1] # pl.q[BUF_CAP]

\* C28: the byte ring refines a queue of at most cap bytes. Over every
\* sequence of rb_push, rb_pop, rb_peek and rb_clear calls since a successful
\* rb_init, however often head and tail have gone round the end of data, the
\* bytes read from head on are the queue, every call returned the count and
\* the bytes the queue answers, and size is the sum of the values rb_push
\* returned less the sum of the values rb_pop returned since the last
\* rb_init / rb_clear.
C28_RefinesBoundedFifo ==
    absq.ok =>
        /\ Content(g_rb) = absq.q
        /\ rb_size(g_rb) = absq.bal
        /\ rb_capacity(g_rb) = absq.cap
        /\ last.op \in {"push", "pop", "peek"} =>
              /\ last.ret = absq.ret
              /\ last.op # "push" => last.out = absq.out

\* a pop whose read went round the end of data, out of a buffer whose tail
\* had already gone round, leaving bytes behind for the next call
C28_Witness ==
    /\ absq.ok
    /\ last.op = "pop"
    /\ last.ret >= 2
    /\ last.rb0.head + last.ret > last.rb0.cap
    /\ last.rb0.tail <= last.rb0.head
    /\ rb_size(g_rb) > 0
    /\ absq.q # <<>>
    /\ last.out \o absq.q = Content(last.rb0)

\* C31: every call of rb_push_overwrite by the reader returns, whatever the
\* printer and the controller do meanwhile: a round of the eviction loop
\* either lowers need by what rb_pop returned (> 0) or leaves the loop
\* because rb_pop returned 0, and from the entry of the call the reader
\* reaches the statement after it.
C31_OverwriteTerminates ==
    /\ [][ (pl.pcR = "ow_pop" /\ pl'.pcR # "ow_pop") =>
             \/ pl'.pcR = "ow_push" /\ pl'.need = pl.need /\ g_rb' = g_rb
             \/ pl'.pcR = "ow_count" /\ pl'.need < pl.need /\ pl'.need >= 0 ]_vars
    /\ [][ (pl.pcR = "ow_count" /\ pl'.pcR = "ow_pop") => pl'.need > 0 ]_vars
    /\ (pl.pcR = "ow_free") ~> (pl.pcR = "r_rx")

\* the printer emptied the buffer between two rounds: the loop was left with
\* need still positive, and the call is about to return
C31_Witness ==
    /\ pl.pcM # "none"
    /\ pl.pcR = "ow_push"
    /\ pl.need > 0
    /\ g_rb.data # NULL
    /\ rb_size(g_rb) = 0

\* the reader is not inside rb_push_overwrite and has counted what it pushed
ReaderBetweenChunks == pl.pcR \in {"r_loop", "r_open", "r_read", "done"}

\* C32: as long as the printer has taken nothing out of the buffer (as when
\* live is off from the start), after each chunk the reader has accepted the
\* buffer holds the last min(RB_CAP, g_total_rx) bytes received, in order,
\* and g_drop_bytes = max(0, g_total_rx - RB_CAP). (Once the reader has ended
\* and the shutdown has freed the buffer there is nothing left to hold.)
C32_NewestKeptWhileSuppressed ==
    (pl.pcM # "none" /\ pl.out = <<>> /\ ReaderBetweenChunks
        /\ (pl.frees = 0 \/ pl.pcR # "done")) =>
        /\ Content(g_rb) = LastBytes(Min(RB_CAP, pl.total_rx), Stream(pl.total_rx))
        /\ g_drop_bytes = IF pl.total_rx > RB_CAP THEN pl.total_rx - RB_CAP ELSE 0

\* C33: rb_push_overwrite discards a stored byte only while the free space
\* is short of the input: whenever a round of its loop takes got > 0 bytes
\* out (which it then counts as dropped), the free space just before that
\* rb_pop is less than n, also when the printer's rb_pop calls come between
\* the reader's steps.
C33_EvictsOnlyWhenShort ==
    [][ (pl.pcM # "none" /\ pl.pcR = "ow_pop" /\ pl'.pcR = "ow_count") =>
           rb_free_space(g_rb) < pl.rn ]_vars

\* C34: a chunk shorter than cap is stored whole: the rb_push that ends
\* rb_push_overwrite returns n, whatever ran between the reader's steps.
C34_FinalPushStoresAll ==
    [][ (pl.pcM # "none" /\ pl.pcR = "ow_push" /\ pl'.pcR = "r_rx") =>
           /\ rb_push(g_rb, pl.rbuf, pl.rn).ret = pl.rn
           /\ LastBytes(pl.rn, Content(g_rb')) = pl.rbuf ]_vars

\* C37: every call of rb_push_overwrite by the reader has 1 <= n < cap, and
\* the reader never takes the `n >= rb->cap` branch.
C37_ReaderNeverClears ==
    /\ (pl.pcM # "none" /\ pl.pcR = "ow_test") => (1 <= pl.rn /\ pl.rn < g_rb.cap)
    /\ (pl.pcM # "none") => pl.pcR \notin {"ow_clear", "ow_tail", "ow_surplus"}

\* the slots of data that hold the logical content
Slots(r) == { rb_mod(r.head + i, r.cap) : i \in 0 .. r.size - 1 }

\* C35: in every state that serialized operations reach on a valid buffer,
\* tail = (head + size) mod cap, so head = tail both when the buffer is empty
\* and when it is full; the valid bytes are the size slots from head on,
\* wrapping at cap and ending just before tail, and they are what a read of
\* size bytes delivers.
C35_CursorEquation ==
    Valid(g_rb) =>
        /\ g_rb.tail = rb_mod(g_rb.head + g_rb.size, g_rb.cap)
        /\ g_rb.size = 0 => g_rb.head = g_rb.tail
        /\ g_rb.size = g_rb.cap => g_rb.head = g_rb.tail
        /\ Cardinality(Slots(g_rb)) = g_rb.size
        /\ g_rb.size > 0 => rb_mod(g_rb.tail + g_rb.cap - 1, g_rb.cap) \in Slots(g_rb)
        /\ (0 < g_rb.size /\ g_rb.size < g_rb.cap) => g_rb.tail \notin Slots(g_rb)
        /\ rb_peek(g_rb, g_rb.size, 0).out
              = [i \in 1 .. g_rb.size |-> g_rb.data[rb_mod(g_rb.head + i - 1, g_rb.cap) + 1]]

\* a pop has just emptied a buffer whose content went round the end of
\* data: head and tail meet away from slot 0
C35_Witness ==
    /\ Valid(g_rb)
    /\ last.op = "pop"
    /\ last.rb0.head + last.rb0.size > last.rb0.cap
    /\ g_rb.size = 0
    /\ g_rb.head = g_rb.tail
    /\ g_rb.head > 0

\* C36: under serialized access, a rb_push_overwrite on a valid buffer that
\* discards a stored byte (n > free space) or is given n >= cap bytes leaves
\* the buffer exactly full; and when it evicts (free space < n < cap) every
\* rb_pop of its loop returns more than 0, so the loop is never left by
\* its break.
C36_OverwriteLeavesFull ==
    (last.op = "push_overwrite" /\ Valid(last.rb0)) =>
        LET r0    == last.rb0
            freeb == rb_free_space(r0)
        IN  /\ (last.n >= r0.cap \/ last.n > freeb \/ g_drop_bytes > last.drop0) =>
                   g_rb.size = g_rb.cap
            /\ (freeb < last.n /\ last.n < r0.cap) =>
                   /\ ~EvictBreaks(r0, last.n - freeb)
                   /\ g_drop_bytes = last.drop0 + (last.n - freeb)

\* an eviction that takes more than one round of the loop and goes round
\* the end of data
C36_Witness ==
    /\ last.op = "push_overwrite"
    /\ Valid(last.rb0)
    /\ last.n < last.rb0.cap
    /\ last.n - rb_free_space(last.rb0) > TmpSize
    /\ last.rb0.head + (last.n - rb_free_space(last.rb0)) >= last.rb0.cap
    /\ g_rb.size = g_rb.cap
    /\ g_drop_bytes > last.drop0

\* C38: rb_push_overwrite on a buffer destroyed by rb_free (data NULL,
\* cap 0) does nothing: the fields stay zero and g_drop_bytes stays as it was.
C38_OverwriteOnDestroyed ==
    (last.op = "push_overwrite" /\ last.rb0 = Zeroed) =>
        /\ g_rb = Zeroed
        /\ g_drop_bytes = last.drop0

\* C39: every fwrite (and fflush) of the reader is given a FILE that is
\* open at that moment, whatever the controller's log on / log off do
\* between the reader's `if (g_logf)` and its fwrite.
C39_WritesOnlyToOpenLog ==
    [][ (pl.pcM \in {"lg_cmd", "lg_open", "lg_null"}
            /\ pl.pcR \in {"l_write", "l_flush"} /\ pl'.pcR # pl.pcR) =>
           pl'.wf \in pl.openf ]_vars

====
